---- MODULE Spec2Model ----
(***************************************************************************)
(* Food analysis back end: the scoring engine (nutritionEngine.js and the  *)
(* calculateHealthScore helper of the routes), the recipe aggregator with  *)
(* its in-memory TTL cache (recipeDB.js), the alternative finder           *)
(* (flavorDB.js) and the /analyze-food handler that composes them.         *)
(*                                                                         *)
(* Strings are strings: keys are built by concatenation, and lower-casing, *)
(* trimming and substring tests run over their characters.  Time is        *)
(* counted in hours.                                                       *)
(***************************************************************************)
EXTENDS Integers, Sequences, FiniteSets, TLC

VARIABLES
    (* scoring engine (nutritionEngine.js) *)
    nutritionData,   \* the nutrition dataset: key -> entry
    engPc,           \* "idle" | "done"
    engArgs,         \* arguments of the last evaluateSuitability call
    engResult,       \* its result
    (* goal-weighted score (routes) *)
    hsNutrition,     \* nutrition profile handed to calculateHealthScore
    hsPc,            \* "idle" | "done"
    hsGoal,          \* goal of the last call
    hsResult,        \* [score, label] of the last call
    (* aggregator (recipeDB.js) *)
    now,             \* Date.now()
    cache,           \* the module-level cache object: key -> {data, timestamp}
    calls,           \* the aggregator calls: slot -> call record
    last,            \* the call that completed before the current one (history)
    ncalls,          \* number of calls started
    (* alternative finder (flavorDB.js) and /analyze-food *)
    flavorData,      \* the flavor-similarity dataset: key -> similar_foods
    req,             \* the /analyze-food request being served
    resp,            \* its response
    (* recipe card of the front end (DetailedRecipeCard) *)
    cardPc,          \* "idle" | "fetching" | "done": position of fetchFullDetails
    fetches,         \* the nine detail fetches: detail -> state of its promise
    details,         \* the details state of the component
    (* direct calls of the label mapper and of the alternative finder *)
    mapped,          \* the last mapLabel call: its label and what it returned
    altCall          \* the last getHealthierAlternatives call and its outcome

engVars == <<nutritionData, engPc, engArgs, engResult>>
hsVars  == <<hsNutrition, hsPc, hsGoal, hsResult>>
aggVars == <<now, cache, calls, last, ncalls>>
anaVars == <<flavorData, req, resp>>
cardVars == <<cardPc, fetches, details>>
libVars == <<mapped, altCall>>
vars    == <<nutritionData, engPc, engArgs, engResult, hsNutrition, hsPc, hsGoal,
             hsResult, now, cache, calls, last, ncalls, flavorData, req, resp,
             cardPc, fetches, details, mapped, altCall>>

(***************************************************************************)
(* JavaScript values                                                       *)
(***************************************************************************)
Null      == [t |-> "null"]
Undefined == [t |-> "undefined"]
\* an inherited property of a plain object (Object.prototype.constructor):
\* truthy, and none of the fields the code reads from it is defined
ProtoValue == [t |-> "proto"]

\* {}
EmptyObject == [k \in {} |-> Null]

Max(a, b) == IF a >= b THEN a ELSE b
Min(a, b) == IF a <= b THEN a ELSE b

(***************************************************************************)
(* Strings                                                                 *)
(***************************************************************************)
\* strings are TLA+ strings: Len, SubSeq and \o work on their characters
CharAt(s, i) == SubSeq(s, i, i)
Rest(s) == SubSeq(s, 2, Len(s))

LowerChar(c) ==
    CASE c = "A" -> "a" [] c = "B" -> "b" [] c = "C" -> "c" [] c = "D" -> "d"
      [] c = "E" -> "e" [] c = "F" -> "f" [] c = "G" -> "g" [] c = "H" -> "h"
      [] c = "I" -> "i" [] c = "J" -> "j" [] c = "K" -> "k" [] c = "L" -> "l"
      [] c = "M" -> "m" [] c = "N" -> "n" [] c = "O" -> "o" [] c = "P" -> "p"
      [] c = "Q" -> "q" [] c = "R" -> "r" [] c = "S" -> "s" [] c = "T" -> "t"
      [] c = "U" -> "u" [] c = "V" -> "v" [] c = "W" -> "w" [] c = "X" -> "x"
      [] c = "Y" -> "y" [] c = "Z" -> "z" [] OTHER -> c

RECURSIVE toLowerCase(_)
toLowerCase(s) ==
    IF s = "" THEN "" ELSE LowerChar(CharAt(s, 1)) \o toLowerCase(Rest(s))

IsSpace(c) == c = " "

RECURSIVE trimStart(_)
trimStart(s) == IF s # "" /\ IsSpace(CharAt(s, 1)) THEN trimStart(Rest(s)) ELSE s

RECURSIVE trimEnd(_)
trimEnd(s) ==
    IF s # "" /\ IsSpace(CharAt(s, Len(s))) THEN trimEnd(SubSeq(s, 1, Len(s) - 1)) ELSE s

trim(s) == trimEnd(trimStart(s))

\* String.prototype.includes
includes(s, t) ==
    \/ t = ""
    \/ \E i \in 1..(Len(s) - Len(t) + 1) : SubSeq(s, i, i + Len(t) - 1) = t

\* a string where undefined is possible too
Str(s) == [t |-> "str", s |-> s]

\* keys every plain object inherits from Object.prototype
ProtoKeys == {"constructor"}

\* obj[key] for a plain object held as a function from its own keys
Lookup(obj, key) ==
    IF key \in DOMAIN obj THEN obj[key]
    ELSE IF key \in ProtoKeys THEN ProtoValue
    ELSE Undefined

Truthy(v) == v # Null /\ v # Undefined

(***************************************************************************)
(* Goal-weighted base score (routes: calculateHealthScore, getSuitability) *)
(***************************************************************************)
\* the goal adjustment with a branch of its own for diabetes_friendly
GoalAdjustmentPerGoal(n, goal) ==
    IF goal = "weight_loss" THEN
        (IF n.calories < 200 THEN 20
         ELSE IF n.calories < 300 THEN 10
         ELSE IF n.calories > 500 THEN -20 ELSE 0)
        + (IF n.fat < 10 THEN 15 ELSE IF n.fat > 20 THEN -15 ELSE 0)
    ELSE IF goal = "muscle_gain" THEN
        (IF n.protein > 20 THEN 25
         ELSE IF n.protein > 10 THEN 15
         ELSE IF n.protein < 5 THEN -10 ELSE 0)
        + (IF n.carbs > 30 THEN 10 ELSE 0)
    ELSE IF goal = "diabetes_friendly" THEN
        (IF n.carbs > 30 THEN -15 ELSE 0)
    ELSE
        (IF n.protein >= 10 /\ n.protein <= 25 THEN 15 ELSE 0)
        + (IF n.carbs >= 20 /\ n.carbs <= 40 THEN 15 ELSE 0)
        + (IF n.fat >= 5 /\ n.fat <= 15 THEN 15 ELSE 0)

GoalAdjustment(n, goal) ==
    IF goal = "weight_loss" THEN
        (IF n.calories < 200 THEN 20
         ELSE IF n.calories < 300 THEN 10
         ELSE IF n.calories > 500 THEN -20 ELSE 0)
        + (IF n.fat < 10 THEN 15 ELSE IF n.fat > 20 THEN -15 ELSE 0)
    ELSE IF goal = "muscle_gain" THEN
        (IF n.protein > 20 THEN 25
         ELSE IF n.protein > 10 THEN 15
         ELSE IF n.protein < 5 THEN -10 ELSE 0)
        + (IF n.carbs > 30 THEN 10 ELSE 0)
    ELSE
        (IF n.protein >= 10 /\ n.protein <= 25 THEN 15 ELSE 0)
        + (IF n.carbs >= 20 /\ n.carbs <= 40 THEN 15 ELSE 0)
        + (IF n.fat >= 5 /\ n.fat <= 15 THEN 15 ELSE 0)

UniversalAdjustment(n) ==
    (IF n.fiber > 5 THEN 10 ELSE IF n.fiber > 3 THEN 5 ELSE 0)
    + (IF n.sugar > 15 THEN -15 ELSE IF n.sugar > 10 THEN -10 ELSE 0)
    + (IF n.sodium > 800 THEN -10 ELSE IF n.sodium > 500 THEN -5 ELSE 0)

RawHealthScore(n, goal) == 50 + GoalAdjustment(n, goal) + UniversalAdjustment(n)

Clamp(score) == Max(0, Min(100, score))

ClampUpperOnly(score) == Min(100, score)

ClampScore(score) == Clamp(score)

calculateHealthScore(n, goal) == ClampScore(RawHealthScore(n, goal))

getSuitability(score) ==
    IF score >= 80 THEN "Excellent"
    ELSE IF score >= 60 THEN "Good"
    ELSE IF score >= 40 THEN "Moderate"
    ELSE "Poor"

(***************************************************************************)
(* Nutrition engine (nutritionEngine.js)                                   *)
(***************************************************************************)
GOALS == {"weight_loss", "muscle_gain", "diabetes_friendly", "balanced_diet"}

\* Object.keys(nutritionData), in insertion order
NutritionKeys == <<"pizza">>

\* keys.find(k => k.includes(key) || key.includes(k))
RECURSIVE findKey(_, _)
findKey(keys, key) ==
    IF keys = <<>> THEN Undefined
    ELSE IF includes(Head(keys), key) \/ includes(key, Head(keys))
    THEN [t |-> "key", key |-> Head(keys)]
    ELSE findKey(Tail(keys), key)

getNutrition(data, foodName) ==
    LET key == trim(toLowerCase(foodName))
        hit == Lookup(data, key)
        match == findKey(NutritionKeys, key)
    IN  IF Truthy(hit) THEN hit
        ELSE IF match # Undefined THEN data[match.key]
        ELSE Null

\* the neutral 70 and its goal-independent adjustments, before the clamp
EngineRawScore(n) ==
    70
    + (IF n.fried THEN -25 ELSE 0)
    + (IF n.refined THEN -10 ELSE 0)
    + (IF n.calories > 300 THEN -15
       ELSE IF n.calories > 250 THEN -8
       ELSE IF n.calories < 150 THEN 10 ELSE 0)
    + (IF n.carbs > 40 THEN -10 ELSE IF n.carbs > 30 THEN -5 ELSE 0)
    + (IF n.fat > 15 THEN -10 ELSE IF n.fat < 5 THEN 5 ELSE 0)
    + (IF n.protein > 20 THEN 15
       ELSE IF n.protein > 15 THEN 10
       ELSE IF n.protein > 10 THEN 5 ELSE 0)
    + (IF n.fiber > 4 THEN 8 ELSE IF n.fiber > 2 THEN 4 ELSE 0)
    + (IF n.sugar > 20 THEN -15 ELSE IF n.sugar > 10 THEN -8 ELSE 0)
    + (IF n.sodium > 600 THEN -8 ELSE IF n.sodium > 400 THEN -4 ELSE 0)

computeHealthScore(data, foodName) ==
    LET n == getNutrition(data, foodName)
    IN  IF n = Null THEN Null ELSE Max(0, Min(100, EngineRawScore(n)))

\* one check of evaluateSuitability: when it triggers it appends its reason
\* and adds its penalty
Check(cond, reason, penalty) == [on |-> cond, reason |-> reason, penalty |-> penalty]

CommonChecks(n) == <<
    Check(n.fried, "Deep-fried preparation is unhealthy", 30),
    Check(n.refined, "Contains refined ingredients", 10) >>

GoalChecks(n, goal) ==
    CASE goal = "weight_loss" -> <<
            Check(n.calories > 250, "High calorie count", 20),
            Check(n.fat > 15, "High fat content", 15),
            Check(n.carbs > 30, "High carbohydrate content", 10),
            Check(n.sugar > 15, "High sugar content", 10) >>
      [] goal = "muscle_gain" -> <<
            Check(n.protein < 10, "Low protein content", 25),
            Check(n.protein < 15, "Moderate protein", 10),
            Check(n.calories < 100, "Very low-calorie", 15) >>
      [] goal = "diabetes_friendly" -> <<
            Check(n.carbs > 30, "High carbohydrate content - spikes blood sugar", 25),
            Check(n.sugar > 10, "High sugar content", 20),
            Check(n.refined, "Refined ingredients cause rapid blood sugar spikes", 15),
            Check(n.fiber < 2, "Low fiber", 10) >>
      [] goal = "balanced_diet" -> <<
            Check(n.fried, "Fried foods should be limited in a balanced diet", 15),
            Check(n.fat > 20, "Excessive fat", 10),
            Check(n.sugar > 15, "High sugar", 10),
            Check(n.sodium > 500, "High sodium", 5) >>
      [] OTHER -> << >>

RECURSIVE Reasons(_)
Reasons(checks) ==
    IF checks = <<>> THEN <<>>
    ELSE (IF Head(checks).on THEN <<Head(checks).reason>> ELSE <<>>)
         \o Reasons(Tail(checks))

\* no penalty taken
NoPenalty(checks) == 0

RECURSIVE Penalty(_)
Penalty(checks) ==
    IF checks = <<>> THEN 0
    ELSE (IF Head(checks).on THEN Head(checks).penalty ELSE 0) + Penalty(Tail(checks))

\* suitable = goalAdjustedScore >= 50 && reasons.length <= 1
SuitableScoreOnly(score, reasons) == score >= 50

SuitableVerdict(score, reasons) == score >= 50 /\ Len(reasons) <= 1

\* the explanation, reduced to its parts: which branch, and the reasons it names
Explanation(suitable, reasons) ==
    IF suitable
    THEN [kind |-> "reasonable choice", names |-> SubSeq(reasons, 1, Min(1, Len(reasons)))]
    ELSE [kind |-> "not ideal", names |-> SubSeq(reasons, 1, Min(2, Len(reasons)))]

evaluateSuitability(data, foodName, goal) ==
    LET n == getNutrition(data, foodName)
    IN  IF n = Null
        THEN [found |-> FALSE, suitable |-> FALSE, score |-> 0,
              reasons |-> <<"Food not found in our database.">>,
              explanation |-> [kind |-> "unable to evaluate", names |-> <<>>],
              goal |-> goal]
        ELSE
        LET checks == CommonChecks(n) \o GoalChecks(n, goal)
            reasons == Reasons(checks)
            penalty == Penalty(checks)
            score == computeHealthScore(data, foodName)
            goalAdjustedScore == Max(0, score - penalty)
            suitable == SuitableVerdict(goalAdjustedScore, reasons)
        IN  [found |-> TRUE, suitable |-> suitable, score |-> goalAdjustedScore,
             reasons |-> reasons, explanation |-> Explanation(suitable, reasons),
             goal |-> goal]

(***************************************************************************)
(* Label mapper (foodDetector.js)                                          *)
(***************************************************************************)
\* the keys of LABEL_MAP in table order, and their values in the same order
LabelKeys == <<
    "pizza", "cheeseburger", "hamburger", "french_loaf", "bagel", "hotdog",
    "hot_dog", "french fries", "ice_cream", "ice cream", "ice_lolly",
    "chocolate_sauce", "trifle", "butternut_squash", "butternut squash",
    "acorn_squash", "acorn squash", "bell_pepper", "mushroom", "cucumber",
    "zucchini", "broccoli", "cauliflower", "head_cabbage", "artichoke",
    "corn", "ear", "banana", "strawberry", "orange", "lemon", "pineapple",
    "pomegranate", "fig", "custard_apple", "jackfruit", "mango", "carbonara",
    "spaghetti", "spaghetti_squash", "meat_loaf", "meatloaf", "burrito",
    "guacamole", "caesar_salad", "plate", "potpie", "pot_pie", "consomme",
    "soup_bowl", "samosa", "dosa", "idli", "biryani", "naan", "dal", "dhal",
    "curry", "masala", "hen", "rooster", "drumstick", "pretzel", "ramen",
    "noodles", "ladle", "wok", "frying_pan", "spatula", "mixing_bowl",
    "waffle", "pancake", "oatmeal", "porridge", "dough", "bakery",
    "fried_rice", "fried rice", "rice", "sushi", "tray", "dining_table",
    "restaurant", "menu", "wooden_spoon", "crock_pot", "dutch_oven",
    "caldron", "mortar" >>

LabelValues == <<
    "pizza", "burger", "burger", "burger", "burger", "burger", "burger",
    "french fries", "ice cream", "ice cream", "ice cream", "cake", "cake",
    "samosa", "samosa", "samosa", "samosa", "samosa", "samosa", "salad",
    "salad", "salad", "salad", "salad", "salad", "biryani", "biryani",
    "smoothie", "smoothie", "smoothie", "smoothie", "smoothie", "smoothie",
    "smoothie", "smoothie", "smoothie", "smoothie", "pasta", "pasta",
    "pasta", "burger", "burger", "burger", "salad", "salad", "biryani",
    "biryani", "biryani", "dal", "dal", "samosa", "dosa", "idli", "biryani",
    "biryani", "dal", "dal", "dal", "paneer tikka", "grilled chicken",
    "tandoori chicken", "tandoori chicken", "noodles", "noodles", "noodles",
    "dal", "fried rice", "fried rice", "dosa", "oatmeal", "dosa", "dosa",
    "oatmeal", "oatmeal", "pizza", "cake", "fried rice", "fried rice",
    "biryani", "sushi", "biryani", "biryani", "biryani", "biryani", "dal",
    "dal", "biryani", "dal", "paneer tikka" >>

LABEL_MAP == [k \in {LabelKeys[i] : i \in DOMAIN LabelKeys} |->
                 LabelValues[CHOOSE i \in DOMAIN LabelKeys : LabelKeys[i] = k]]

IsSeparator(c) == c = "_" \/ IsSpace(c)

\* s.replace(/[_\s]+/g, '_')
RECURSIVE collapseSeparators(_)
collapseSeparators(s) ==
    IF s = "" THEN ""
    ELSE IF IsSeparator(CharAt(s, 1))
    THEN IF Len(s) >= 2 /\ IsSeparator(CharAt(s, 2))
         THEN collapseSeparators(Rest(s))
         ELSE "_" \o collapseSeparators(Rest(s))
    ELSE CharAt(s, 1) \o collapseSeparators(Rest(s))

\* the replacement left out
keepUnderscores(s) == s

\* s.replace(/_/g, ' ')
RECURSIVE underscoresToSpaces(_)
underscoresToSpaces(s) ==
    IF s = "" THEN ""
    ELSE (IF CharAt(s, 1) = "_" THEN " " ELSE CharAt(s, 1))
         \o underscoresToSpaces(Rest(s))

\* for (const [key, value] of Object.entries(LABEL_MAP)) if (...) return value
RECURSIVE partialMatch(_, _)
partialMatch(i, normalized) ==
    IF i > Len(LabelKeys) THEN Undefined
    ELSE IF includes(normalized, LabelKeys[i]) \/ includes(LabelKeys[i], normalized)
    THEN Str(LabelValues[i])
    ELSE partialMatch(i + 1, normalized)

\* LABEL_MAP[key]: a table value, an inherited property, or undefined
LabelLookup(key) ==
    IF key \in DOMAIN LABEL_MAP THEN Str(LABEL_MAP[key])
    ELSE IF key \in ProtoKeys THEN ProtoValue
    ELSE Undefined

\* the result is a value: Str(food), or whatever a truthy lookup returned
mapLabel(label) ==
    LET normalized == collapseSeparators(trim(toLowerCase(label)))
        withSpaces == underscoresToSpaces(normalized)
        partial == partialMatch(1, normalized)
    IN  IF Truthy(LabelLookup(normalized)) THEN LabelLookup(normalized)
        ELSE IF Truthy(LabelLookup(withSpaces)) THEN LabelLookup(withSpaces)
        ELSE IF partial # Undefined THEN partial
        ELSE Str(withSpaces)

getSupportedFoods == <<
    "samosa", "pizza", "burger", "french fries", "salad",
    "grilled chicken", "biryani", "dal", "idli", "dosa",
    "fried rice", "noodles", "pasta", "paneer tikka", "tandoori chicken",
    "ice cream", "cake", "oatmeal", "smoothie", "sushi" >>

(***************************************************************************)
(* Alternative finder (flavorDB.js)                                        *)
(***************************************************************************)
\* Object.keys(flavorData): the keys of the dataset in file order
FlavorKeys == <<"pizza", "french fries">>

\* keys.find(k => k.includes(key) || key.includes(k))
RECURSIVE fuzzyMatch(_, _, _)
fuzzyMatch(fdata, i, key) ==
    IF i > Len(FlavorKeys) THEN Undefined
    ELSE IF FlavorKeys[i] \in DOMAIN fdata
            /\ (includes(FlavorKeys[i], key) \/ includes(key, FlavorKeys[i]))
    THEN Str(FlavorKeys[i])
    ELSE fuzzyMatch(fdata, i + 1, key)

\* the dataset key getSimilarFoods reads: the exact one when flavorData[key]
\* is truthy (an inherited property is), else the first fuzzy match
matchedKey(fdata, foodName) ==
    LET key == trim(toLowerCase(foodName))
    IN  IF Truthy(Lookup(fdata, key)) THEN Str(key) ELSE fuzzyMatch(fdata, 1, key)

\* entry.similar_foods
similarFoodsOf(entry) ==
    IF entry = ProtoValue THEN Undefined ELSE entry.similar_foods

getSimilarFoods(fdata, foodName) ==
    LET match == matchedKey(fdata, foodName)
    IN  IF match = Undefined THEN Null
        ELSE [source |-> "FlavorDB", query |-> foodName,
              similar_foods |-> similarFoodsOf(Lookup(fdata, match.s))]

healthyMethods ==
    <<"steamed", "baked", "grilled", "roasted", "boiled", "raw", "blended">>

\* healthyMethods.some(m => a.cooking_method.toLowerCase().includes(m)) ? 1 : 0
healthyRank(a) ==
    IF \E i \in DOMAIN healthyMethods :
          includes(toLowerCase(a.cooking_method.s), healthyMethods[i])
    THEN 1 ELSE 0

\* the comparator without its last criterion
compareWithoutSimilarity(a, b) ==
    IF healthyRank(b) # healthyRank(a) THEN healthyRank(b) - healthyRank(a)
    ELSE a.calories - b.calories

\* the comparator of the sort
compareAlternatives(a, b) ==
    IF healthyRank(b) # healthyRank(a) THEN healthyRank(b) - healthyRank(a)
    ELSE IF a.calories # b.calories THEN a.calories - b.calories
    ELSE b.similarity - a.similarity

\* the comparator reads cooking_method.toLowerCase() of both arguments, and
\* every element of a list of two or more is compared at least once
comparatorThrows(list) ==
    Len(list) >= 2 /\ \E i \in DOMAIN list : list[i].cooking_method = Undefined

\* Array.prototype.sort is stable: x goes before the first element it
\* precedes strictly
RECURSIVE insertSorted(_, _)
insertSorted(sorted, x) ==
    IF sorted = <<>> THEN <<x>>
    ELSE IF compareAlternatives(x, Head(sorted)) < 0 THEN <<x>> \o sorted
    ELSE <<Head(sorted)>> \o insertSorted(Tail(sorted), x)

RECURSIVE sortAlternatives(_)
sortAlternatives(list) ==
    IF list = <<>> THEN <<>>
    ELSE insertSorted(sortAlternatives(SubSeq(list, 1, Len(list) - 1)),
                      list[Len(list)])

\* alternatives.filter(f => !f.fried)
notFried(f) == ~f.fried

\* the list, not cut
sliceNothing(list, limit) == list

\* list.slice(0, limit)
slice(list, limit) ==
    SubSeq(list, 1, IF limit < 0 THEN Max(Len(list) + limit, 0)
                    ELSE Min(limit, Len(list)))

\* ({ ...alt, source: 'FlavorDB' })
withSource(alt) ==
    [name |-> alt.name, cooking_method |-> alt.cooking_method,
     calories |-> alt.calories, similarity |-> alt.similarity,
     fried |-> alt.fried, source |-> "FlavorDB"]

\* getHealthierAlternatives: whether it threw, the list it returned, and the
\* dataset afterwards (the sort is in place: without the filter it reorders
\* the array of the dataset; it writes nothing back when the comparator
\* throws).  An inherited property has no similar_foods: filter and sort of
\* undefined throw.
getHealthierAlternatives(fdata, foodName, originalIsFried, limit) ==
    LET data == getSimilarFoods(fdata, foodName)
        match == matchedKey(fdata, foodName)
        alternatives ==
            IF originalIsFried THEN SelectSeq(data.similar_foods, notFried)
            ELSE data.similar_foods
        sorted == sortAlternatives(alternatives)
    IN  IF data = Null
        THEN [threw |-> FALSE, value |-> <<>>, data |-> fdata]
        ELSE IF Lookup(fdata, match.s) = ProtoValue \/ comparatorThrows(alternatives)
        THEN [threw |-> TRUE, value |-> Undefined, data |-> fdata]
        ELSE [threw |-> FALSE,
              value |-> [i \in DOMAIN slice(sorted, limit) |->
                            withSource(slice(sorted, limit)[i])],
              data |-> IF originalIsFried THEN fdata
                       ELSE [fdata EXCEPT ![match.s].similar_foods = sorted]]

(***************************************************************************)
(* Recipe aggregator (recipeDB.js): datasets and payloads                  *)
(***************************************************************************)
CACHE_TTL == 1

\* the local recipe dataset (data/recipedb.json): own keys and entries
RecipeData ==
    ("pizza" :> [name |-> "Pizza", cooking_method |-> "baked"])
    @@ ("french fries" :>
            [name |-> "French Fries",
             cooking_method |-> "deep fried"])

\* the hardcoded sample list of getSampleRecipes: id, title and the
\* detail fields the literal carries (only samosa_001 has one: taste)
SampleRecipes == <<
    [id |-> "2612",
     title |-> "Balah el Sham (Egyptian Choux Pastry)", fields |-> {}],
    [id |-> "2613",
     title |-> "Magpie's Easy Falafel Cakes", fields |-> {}],
    [id |-> "2614", title |-> "Dukkah", fields |-> {}],
    [id |-> "pizza_001",
     title |-> "Classic Margherita Pizza", fields |-> {}],
    [id |-> "samosa_001",
     title |-> "Vegetable Samosa", fields |-> {"taste"}] >>

getSampleRecipes(query) ==
    LET queryLower == toLowerCase(query)
        Match(r) == includes(toLowerCase(r.title), queryLower)
    IN  SelectSeq(SampleRecipes, Match)

\* getSampleRecipes('').find(s => s.id === recipeId)
findSample(recipeId) ==
    LET Same(r) == r.id = recipeId
        found == SelectSeq(getSampleRecipes(""), Same)
    IN  IF found = <<>> THEN Undefined ELSE Head(found)

\* sample.<field>: the value when the literal has the field, else undefined
sampleField(sample, field) ==
    IF field \in sample.fields
    THEN [t |-> "sample", field |-> field, id |-> sample.id]
    ELSE Undefined

\* Math.round(a / s) for an integer a and a non-zero integer s
RoundDiv(a, s) ==
    IF s > 0 THEN (2 * a + s) \div (2 * s) ELSE (2 * (0 - a) - s) \div (2 * (0 - s))

\* a raw API value: absent, a JSON number, or a JSON string holding a number
Num(k)  == [t |-> "num", n |-> k]
Text(k) == [t |-> "text", n |-> k]

\* truthiness of a raw value: a non-zero number or a non-empty string
RawTruthy(x) == x # Undefined /\ ~(x.t = "num" /\ x.n = 0)

\* parseInt(rawRecipe.servings) || 1
Servings(raw) == IF raw = Undefined \/ raw.n = 0 THEN 1 ELSE raw.n

\* x ? Math.round(parseFloat(x) / servings) : 0
PerServing(x, servings) ==
    IF RawTruthy(x) THEN RoundDiv(x.n, servings) ELSE 0

\* rawRecipe.Processes ? rawRecipe.Processes.split('||').pop().trim() : ''
RECURSIVE lastSegment(_)
lastSegment(s) ==
    IF ~includes(s, "||") THEN s
    ELSE IF SubSeq(s, 1, 2) = "||" THEN lastSegment(SubSeq(s, 3, Len(s)))
    ELSE lastSegment(Rest(s))

cookingMethodOf(processes) ==
    IF processes = Undefined \/ processes.s = "" THEN ""
    ELSE trim(lastSegment(processes.s))

processRecipeData(rawRecipe, nutritionPayload) ==
    LET servings == Servings(rawRecipe.servings)
        nutrition ==
            IF nutritionPayload # Null
            THEN [calories |-> PerServing(nutritionPayload.Calories, servings),
                  carbs    |-> PerServing(nutritionPayload.carbs, servings),
                  protein  |-> PerServing(nutritionPayload.protein, servings),
                  fat      |-> PerServing(nutritionPayload.fat, servings),
                  fiber    |-> PerServing(nutritionPayload.fiber, servings),
                  sugar    |-> PerServing(nutritionPayload.sugar, servings),
                  sodium   |-> PerServing(nutritionPayload.sodium, servings),
                  source   |-> "RecipeDB API"]
            ELSE [calories |-> PerServing(rawRecipe.Calories, servings),
                  carbs |-> 0, protein |-> 0, fat |-> 0, fiber |-> 0,
                  sugar |-> 0, sodium |-> 0, source |-> "RecipeDB API (basic)"]
    IN  [t |-> "recipe", Recipe_title |-> rawRecipe.Recipe_title,
         recipe_id |-> rawRecipe.recipe_id, nutrition |-> nutrition,
         cooking_method |-> Str(cookingMethodOf(rawRecipe.Processes)),
         source |-> "RecipeDB API"]

\* nutrition.<field> || 0 for a dataset entry, or for an inherited property
OrZero(entry, field) ==
    IF entry = ProtoValue THEN 0 ELSE entry[field]

getLocalRecipe(ndata, foodName) ==
    LET key == trim(toLowerCase(foodName))
        recipe == Lookup(RecipeData, key)
        nutrition == Lookup(ndata, key)
    IN  IF Truthy(recipe)
        THEN [t |-> "recipe",
              Recipe_title |-> IF recipe = ProtoValue THEN "Object" ELSE recipe.name,
              recipe_id |-> Undefined,
              nutrition |->
                  IF Truthy(nutrition)
                  THEN [calories |-> OrZero(nutrition, "calories"),
                        carbs    |-> OrZero(nutrition, "carbs"),
                        protein  |-> OrZero(nutrition, "protein"),
                        fat      |-> OrZero(nutrition, "fat"),
                        fiber    |-> OrZero(nutrition, "fiber"),
                        sugar    |-> OrZero(nutrition, "sugar"),
                        sodium   |-> OrZero(nutrition, "sodium"),
                        source   |-> "Local JSON"]
                  ELSE [calories |-> 0, carbs |-> 0, protein |-> 0, fat |-> 0,
                        fiber |-> 0, sugar |-> 0, sodium |-> 0,
                        source |-> "Local JSON (incomplete)"],
              cooking_method |->
                  IF recipe = ProtoValue THEN Undefined ELSE Str(recipe.cooking_method),
              source |-> "Local JSON"]
        ELSE Null

(***************************************************************************)
(* Recipe aggregator: cache keys, cache test, remote outcomes              *)
(***************************************************************************)
MaxTime  == 4
MaxCalls == 2

DetailOps == {"getDetailedNutrition", "getInstructions", "getTasteProfile",
              "getFlavorProfile", "getIngredientsWithCategories",
              "getUtensils", "getProcesses"}
Ops == {"getRecipe", "searchRecipes"} \cup DetailOps

\* `${page}`: a number written in decimal
ToStr(n) ==
    CASE n = 1 -> "1" [] n = 2 -> "2" [] n = 50 -> "50" [] OTHER -> "n"

KeyPrefix(op) ==
    CASE op = "getDetailedNutrition"         -> "nutrition_"
      [] op = "getInstructions"              -> "instructions_"
      [] op = "getTasteProfile"              -> "taste_"
      [] op = "getFlavorProfile"             -> "flavor_"
      [] op = "getIngredientsWithCategories" -> "ing_cat_"
      [] op = "getUtensils"                  -> "utensils_"
      [] op = "getProcesses"                 -> "processes_"

cacheKeyOf(op, arg) ==
    CASE op = "getRecipe" -> toLowerCase(arg)
      [] op = "searchRecipes" ->
            "search_" \o toLowerCase(arg.q) \o "_" \o ToStr(arg.page)
            \o "_" \o ToStr(arg.limit)
      [] OTHER -> KeyPrefix(op) \o arg

\* the factor of CACHE_TTL in the operation's cache test
TtlFactorAlwaysOne(op) == 1

TtlFactor(op) ==
    CASE op \in {"getRecipe", "searchRecipes"} -> 1
      [] op = "getDetailedNutrition" -> 2
      [] OTHER -> 4

IsEntry(e) == "timestamp" \in DOMAIN e

\* data.length of a cached value: defined for a list only
HasItems(d) == d.t = "list" /\ Len(d.items) > 0

\* cache[cacheKey] && Date.now() < cache[cacheKey].timestamp + TTL
\* (an inherited property has no timestamp: the comparison is false)
LiveEntryNoExpiry(c, t, op, key) ==
    LET e == Lookup(c, key) IN Truthy(e) /\ IsEntry(e)

LiveEntry(c, t, op, key) ==
    LET e == Lookup(c, key)
    IN  Truthy(e) /\ IsEntry(e) /\ t < e.timestamp + CACHE_TTL * TtlFactor(op)

\* the cache test of an operation; searchRecipes also wants a non-empty list
CacheHitAnyLength(c, t, op, key) == LiveEntry(c, t, op, key)

CacheHit(c, t, op, key) ==
    /\ LiveEntry(c, t, op, key)
    /\ op = "searchRecipes" => HasItems(Lookup(c, key).data)

\* what the remote API can answer to one request
Versions == {1, 2}
RemoteOutcomes ==
    {[kind |-> "data", v |-> v] : v \in Versions}
    \cup {[kind |-> "empty"], [kind |-> "error"]}
    \cup {[kind |-> "status", status |-> st] : st \in {429, 503}}

\* data.data[0] of recipeByTitle, in two variants
RawRecipe(foodName, v) ==
    IF v = 1
    THEN [Recipe_title |-> foodName, recipe_id |-> Str("42"), servings |-> Text(4),
          Calories |-> Text(1000), Processes |-> Str("chop|| deep fry")]
    ELSE [Recipe_title |-> foodName, recipe_id |-> Str("2612"), servings |-> Undefined,
          Calories |-> Num(300), Processes |-> Undefined]

\* data[0] of nutritioninfo, in two variants
NutritionPayload(v) ==
    IF v = 1
    THEN [Calories |-> Text(1000), carbs |-> Text(120), protein |-> Text(40),
          fat |-> Text(50), fiber |-> Text(10), sugar |-> Text(6),
          sodium |-> Text(2400)]
    ELSE [Calories |-> Num(300), carbs |-> Num(30), protein |-> Num(12),
          fat |-> Undefined, fiber |-> Num(0), sugar |-> Num(22),
          sodium |-> Num(900)]

\* the processed recipe list of a successful search
SearchResults(arg, v) ==
    [t |-> "list",
     items |-> <<[id |-> "42", title |-> arg.q, v |-> v, source |-> "RecipeDB API"]>>]

EmptyList == [t |-> "list", items |-> <<>>]

SampleList(query) == [t |-> "list", items |-> getSampleRecipes(query)]

\* the payload of a successful detail request
DetailData(op, id, v) == [t |-> "detail", op |-> op, id |-> id, v |-> v]

\* the sample field a detail operation falls back to
SampleFieldOf(op) ==
    CASE op = "getDetailedNutrition" -> "nutrition"
      [] op = "getInstructions"      -> "instructions"
      [] op = "getTasteProfile"      -> "taste"
      [] op = "getFlavorProfile"     -> "flavor"
      [] op = "getUtensils"          -> "utensils"
      [] op = "getProcesses"         -> "processes"
      [] OTHER                       -> "none"

\* sample ? sample.<field> : null   (the catch blocks)
SampleOrNull(op, id) ==
    LET sample == findSample(id)
    IN  IF sample = Undefined THEN Null
        ELSE IF op = "getInstructions"
        THEN [t |-> "instructions", instructions |-> sampleField(sample, "instructions")]
        ELSE sampleField(sample, SampleFieldOf(op))

\* if (sample && sample.<field>) return sample.<field>; return null;
SampleIfPresent(op, id) ==
    LET sample == findSample(id)
    IN  IF sample = Undefined THEN Null
        ELSE IF sampleField(sample, SampleFieldOf(op)) = Undefined THEN Null
        ELSE IF op = "getInstructions"
        THEN [t |-> "instructions", instructions |-> sampleField(sample, "instructions")]
        ELSE sampleField(sample, SampleFieldOf(op))

\* what a detail operation returns when the remote request did not deliver data
DetailFallback(op, id, outcome) ==
    CASE op \in {"getDetailedNutrition", "getInstructions", "getTasteProfile",
                 "getFlavorProfile"} ->
            (CASE outcome.kind = "status" -> Null
               [] outcome.kind = "empty"  -> SampleIfPresent(op, id)
               [] outcome.kind = "error"  -> SampleOrNull(op, id))
      [] op = "getIngredientsWithCategories" -> Null
      [] op \in {"getUtensils", "getProcesses"} ->
            (CASE outcome.kind = "status" -> SampleOrNull(op, id)
               [] outcome.kind = "empty"  -> Null
               [] outcome.kind = "error"  -> SampleOrNull(op, id))

(***************************************************************************)
(* Recipe aggregator: the calls                                            *)
(*                                                                         *)
(* A call record keeps the position of an async function (pc), what it     *)
(* returned, and history fields: fetched (a remote request was issued),    *)
(* hit (the cache test passed), entry (the cache entry it served or wrote, *)
(* else Null) and remote (the kind of answer its first request got).       *)
(***************************************************************************)
IdleCall ==
    [pc |-> "idle", op |-> "none", arg |-> "", key |-> "", fetched |-> FALSE,
     hit |-> FALSE, entry |-> Null, result |-> Null, basic |-> Null, remote |-> "none"]

\* the synchronous head of every operation: the key, the cache test, and
\* either the cached data or the remote request
BeginCallNoCache(c, t, op, arg) ==
    LET key == cacheKeyOf(op, arg)
    IN  [pc |-> "fetch", op |-> op, arg |-> arg, key |-> key, fetched |-> TRUE,
         hit |-> FALSE, entry |-> Null, result |-> Null, basic |-> Null, remote |-> "none"]

BeginCall(c, t, op, arg) ==
    LET key == cacheKeyOf(op, arg)
    IN  IF CacheHit(c, t, op, key)
        THEN [pc |-> "done", op |-> op, arg |-> arg, key |-> key, fetched |-> FALSE,
              hit |-> TRUE, entry |-> c[key], result |-> c[key].data, basic |-> Null,
              remote |-> "none"]
        ELSE [pc |-> "fetch", op |-> op, arg |-> arg, key |-> key, fetched |-> TRUE,
              hit |-> FALSE, entry |-> Null, result |-> Null, basic |-> Null, remote |-> "none"]

\* what the history keeps of a completed call
Summary(call) ==
    [pc |-> call.pc, op |-> call.op, arg |-> call.arg, fetched |-> call.fetched,
     entry |-> call.entry, result |-> call.result, remote |-> call.remote]

Returned(call, value) == [call EXCEPT !.pc = "done", !.result = value]

\* cache[cacheKey] = { data, timestamp: Date.now() }; return data
Stored(call, data, t) ==
    [call EXCEPT !.pc = "done", !.result = data,
                 !.entry = [data |-> data, timestamp |-> t]]

\* the same, with the fallback value cached as well
FallbackCached(call, value, t) == Stored(call, value, t)

FallbackReturned(call, value, t) == Returned(call, value)

\* the call after the answer to its (first) remote request
AfterResponse(call0, outcome, t, ndata) ==
    LET call == [call0 EXCEPT !.remote = outcome.kind] IN
    CASE call.op = "getRecipe" ->
            IF outcome.kind = "data"
            THEN [call EXCEPT !.pc = "fetch2", !.basic = RawRecipe(call.arg, outcome.v)]
            ELSE FallbackReturned(call, getLocalRecipe(ndata, call.arg), t)
      [] call.op = "searchRecipes" ->
            IF outcome.kind = "data"
            THEN Stored(call, SearchResults(call.arg, outcome.v), t)
            ELSE FallbackReturned(call, SampleList(call.arg.q), t)
      [] OTHER ->
            IF outcome.kind = "data"
            THEN Stored(call, DetailData(call.op, call.arg, outcome.v), t)
            ELSE FallbackReturned(call, DetailFallback(call.op, call.arg, outcome), t)

\* getRecipe after the answer to its nutrition request: any failure leaves
\* nutritionData null and the basic calories are used
AfterNutritionResponse(call, outcome, t) ==
    Stored(call,
           processRecipeData(call.basic,
               IF outcome.kind = "data" THEN NutritionPayload(outcome.v) ELSE Null),
           t)

\* the cache after a call moved to `after`
CacheAfterDataOnly(c, before, after) ==
    IF after.pc = "done" /\ after.entry # Null /\ ~after.hit
    THEN IF after.key \in DOMAIN c /\ IsEntry(c[after.key])
         THEN [c EXCEPT ![after.key].data = after.entry.data]
         ELSE (after.key :> after.entry) @@ c
    ELSE c

CacheAfter(c, before, after) ==
    IF after.pc = "done" /\ after.entry # Null /\ ~after.hit
    THEN (after.key :> after.entry) @@ c
    ELSE c

(***************************************************************************)
(* GET /recipes/:id/precision-health (routes): the score                   *)
(*                                                                         *)
(* Numbers are exact here: a score is kept as the fraction num / den, with *)
(* den = 200 * servings; a serving count of 0 is handled apart.            *)
(***************************************************************************)
\* parseFloat(nutriData[k1] || nutriData[k2] || dflt)
nutrientOf(nutriData, k1, k2, dflt) ==
    IF k1 \in DOMAIN nutriData /\ RawTruthy(nutriData[k1]) THEN nutriData[k1].n
    ELSE IF k2 \in DOMAIN nutriData /\ RawTruthy(nutriData[k2]) THEN nutriData[k2].n
    ELSE dflt

\* the fields the handler extracts
extractNutrients(nutriData) ==
    [servings |-> nutrientOf(nutriData, "servings", "Servings", 1),
     calories |-> nutrientOf(nutriData, "Energy (kcal)", "Calories", 0),
     sugar    |-> nutrientOf(nutriData, "Sugars, total (g)", "Sugar", 0),
     satFat   |-> nutrientOf(nutriData, "Fatty acids, total saturated (g)",
                             "Saturated Fat", 0),
     sodium   |-> nutrientOf(nutriData, "Sodium, Na (mg)", "Sodium", 0),
     fiber    |-> nutrientOf(nutriData, "Fiber, total dietary (g)", "Fiber", 0),
     protein  |-> nutrientOf(nutriData, "Protein (g)", "Protein", 0)]

\* healthScore = (pFiber * 4 + pProtein * 3)
\*               - (pSugar * 3 + pSatFat * 4 + pSodium / 200 + pCalories / 100)
\* over the per-serving values x / servings, as a fraction
healthScoreNum(x) ==
    200 * (x.fiber * 4 + x.protein * 3)
    - (200 * (x.sugar * 3 + x.satFat * 4) + x.sodium + 2 * x.calories)

healthScoreDen(x) == 200 * x.servings

\* the classification of num / den
classifyAtLeast15(num, den) ==
    IF num >= 15 * den THEN "Very Healthy"
    ELSE IF num >= 5 * den THEN "Moderate"
    ELSE IF num >= 0 THEN "Less Healthy"
    ELSE "Unhealthy"

classify(num, den) ==
    IF num > 15 * den THEN "Very Healthy"
    ELSE IF num >= 5 * den THEN "Moderate"
    ELSE IF num >= 0 THEN "Less Healthy"
    ELSE "Unhealthy"

colorOf(category) ==
    CASE category = "Very Healthy" -> "#2ecc71"
      [] category = "Moderate"     -> "#f1c40f"
      [] category = "Less Healthy" -> "#e67e22"
      [] OTHER                     -> "#e74c3c"

\* Math.round(num / den) for den > 0: halves go up
roundFraction(num, den) == (2 * num + den) \div (2 * den)

\* Math.round(v * 10) / 10 of v = num / den, in tenths
roundTenths(num, den) == roundFraction(10 * num, den)

\* benefits and riskFactors, in the order they are pushed
benefitsOf(x) ==
    (IF x.fiber > 3 * x.servings THEN <<"High Fiber">> ELSE <<>>)
    \o (IF x.protein > 10 * x.servings THEN <<"High Protein">> ELSE <<>>)

riskFactorsOf(x) ==
    (IF x.sugar > 5 * x.servings THEN <<"High Sugar (Diabetes Risk)">> ELSE <<>>)
    \o (IF x.sodium > 400 * x.servings THEN <<"High Sodium (BP Risk)">> ELSE <<>>)
    \o (IF x.satFat > 3 * x.servings
        THEN <<"High Saturated Fat (Heart Risk)">> ELSE <<>>)

\* the values of a division by zero, and what JSON makes of them
NaN == [t |-> "NaN"]
Infinity(sign) == [t |-> "Infinity", sign |-> sign]

\* v / 0
divideByZero(v) == IF v = 0 THEN NaN ELSE Infinity(IF v > 0 THEN 1 ELSE -1)

\* a + b where each is NaN or an infinity
addInfinite(a, b) == IF a = NaN \/ b = NaN \/ a # b THEN NaN ELSE a

\* healthScore when servings is 0: every per-serving value is NaN or infinite
healthScoreByZero(x) ==
    LET gain == addInfinite(divideByZero(x.fiber), divideByZero(x.protein))
        loss == addInfinite(addInfinite(divideByZero(x.sugar), divideByZero(x.satFat)),
                            addInfinite(divideByZero(x.sodium), divideByZero(x.calories)))
    IN  IF gain = NaN \/ loss = NaN THEN NaN
        ELSE addInfinite(gain, Infinity(0 - loss.sign))

\* the comparisons of the classification on NaN or an infinity
classifyInfinite(v) ==
    IF v # NaN /\ v.sign = 1 THEN "Very Healthy" ELSE "Unhealthy"

\* the body when the divisor is 0
precisionHealthByZero(x) ==
    [status |-> 200, success |-> TRUE,
     scoreNum |-> healthScoreByZero(x), scoreDen |-> 0,
     healthScore |-> healthScoreByZero(x),
     category |-> classifyInfinite(healthScoreByZero(x)),
     color |-> colorOf(classifyInfinite(healthScoreByZero(x))),
     benefits |-> benefitsOf(x), riskFactors |-> riskFactorsOf(x),
     perServing |-> [calories |-> divideByZero(x.calories),
                     sugar    |-> divideByZero(x.sugar),
                     fiber    |-> divideByZero(x.fiber),
                     protein  |-> divideByZero(x.protein)]]

\* the body the handler answers when nutriData is present; healthScore and the
\* rounded per-serving sugar, fiber and protein are in tenths; scoreNum and
\* scoreDen keep the unrounded healthScore
precisionHealth(nutriData) ==
    LET x == extractNutrients(nutriData)
        num == healthScoreNum(x)
        den == healthScoreDen(x)
    IN  IF x.servings = 0 THEN precisionHealthByZero(x) ELSE
        [status |-> 200, success |-> TRUE,
         scoreNum |-> num, scoreDen |-> den,
         healthScore |-> roundTenths(num, den),
         category |-> classify(num, den),
         color |-> colorOf(classify(num, den)),
         benefits |-> benefitsOf(x), riskFactors |-> riskFactorsOf(x),
         perServing |-> [calories |-> roundFraction(x.calories, x.servings),
                         sugar    |-> roundTenths(x.sugar, x.servings),
                         fiber    |-> roundTenths(x.fiber, x.servings),
                         protein  |-> roundTenths(x.protein, x.servings)]]

(***************************************************************************)
(* Aggregator actions                                                      *)
(***************************************************************************)
NumSlots == 2
Slots == 1..NumSlots

Free(slot) == calls[slot].pc \in {"idle", "done"}

\* a caller invokes an operation
Start(slot, op, arg) ==
    /\ Free(slot)
    /\ ncalls < MaxCalls
    /\ calls' = [calls EXCEPT ![slot] = BeginCall(cache, now, op, arg)]
    /\ last' = IF calls[slot].pc = "done" THEN Summary(calls[slot]) ELSE last
    /\ ncalls' = ncalls + 1
    /\ UNCHANGED <<now, cache>>

\* the remote API answers the pending request of a call
Respond(slot, outcome) ==
    /\ calls[slot].pc = "fetch"
    /\ LET after == AfterResponse(calls[slot], outcome, now, nutritionData)
       IN  /\ calls' = [calls EXCEPT ![slot] = after]
           /\ cache' = CacheAfter(cache, calls[slot], after)
    /\ UNCHANGED <<now, last, ncalls>>

\* the remote API answers the nutrition request of getRecipe
RespondNutrition(slot, outcome) ==
    /\ calls[slot].pc = "fetch2"
    /\ LET after == AfterNutritionResponse(calls[slot], outcome, now)
       IN  /\ calls' = [calls EXCEPT ![slot] = after]
           /\ cache' = CacheAfter(cache, calls[slot], after)
    /\ UNCHANGED <<now, last, ncalls>>

\* Date.now() advances
Tick ==
    /\ now < MaxTime
    /\ now' = now + 1
    /\ UNCHANGED <<cache, calls, last, ncalls>>

(***************************************************************************)
(* Scoring actions                                                         *)
(***************************************************************************)
\* evaluateSuitability(foodName, goal); its un-awaited
\* RecipeDBService.getRecipe(foodName) is left pending in slot 1
Evaluate(foodName, goal) ==
    /\ engPc = "idle"
    /\ engPc' = "done"
    /\ engArgs' = [foodName |-> foodName, goal |-> goal]
    /\ engResult' = evaluateSuitability(nutritionData, foodName, goal)
    /\ calls' = [calls EXCEPT ![1] = BeginCall(cache, now, "getRecipe", foodName)]
    /\ UNCHANGED <<nutritionData, now, cache, last, ncalls>>
    /\ UNCHANGED <<hsVars, anaVars, cardVars, libVars>>

\* calculateHealthScore(nutrition, goal) and getSuitability of its result
Calculate(goal) ==
    /\ hsPc = "idle"
    /\ hsPc' = "done"
    /\ hsGoal' = goal
    /\ hsResult' = [score |-> calculateHealthScore(hsNutrition, goal),
                    label |-> getSuitability(calculateHealthScore(hsNutrition, goal))]
    /\ UNCHANGED <<hsNutrition, engVars, aggVars, anaVars, cardVars, libVars>>

\* the scoring part of the precision-health handler on a nutrition payload
ScorePrecision ==
    /\ hsPc = "idle"
    /\ hsPc' = "done"
    /\ hsResult' = precisionHealth(hsNutrition)
    /\ UNCHANGED <<hsNutrition, hsGoal, engVars, aggVars, anaVars, cardVars, libVars>>

\* processRecipeData(rawRecipe, nutritionData) on one pair of payloads
ProcessRecipe ==
    /\ hsPc = "idle"
    /\ hsPc' = "done"
    /\ hsResult' = processRecipeData(hsNutrition.rawRecipe, hsNutrition.nutritionData)
    /\ UNCHANGED <<hsNutrition, hsGoal, engVars, aggVars, anaVars, cardVars, libVars>>

\* a nutrition payload under the primary keys, as numbers, and under the
\* alternative keys, as strings (servings 0: no Servings field)
primaryPayload(v) ==
    ("Energy (kcal)" :> Num(v.calories)) @@ ("Sugars, total (g)" :> Num(v.sugar))
    @@ ("Fatty acids, total saturated (g)" :> Num(v.satFat))
    @@ ("Sodium, Na (mg)" :> Num(v.sodium))
    @@ ("Fiber, total dietary (g)" :> Num(v.fiber))
    @@ ("Protein (g)" :> Num(v.protein)) @@ ("servings" :> Num(v.servings))

alternativePayload(v) ==
    ("Calories" :> Text(v.calories)) @@ ("Sugar" :> Text(v.sugar))
    @@ ("Saturated Fat" :> Text(v.satFat)) @@ ("Sodium" :> Text(v.sodium))
    @@ ("Fiber" :> Text(v.fiber)) @@ ("Protein" :> Text(v.protein))
    @@ (IF v.servings = 0 THEN EmptyObject ELSE ("Servings" :> Text(v.servings)))

(***************************************************************************)
(* GET /recipes/:id/<resource> (routes)                                    *)
(***************************************************************************)
DetailRoutes ==
    {"nutrition", "instructions", "taste", "flavor", "utensils", "processes",
     "ingredients-categories", "precision-health"}

\* the aggregator operation a route awaits first
routeOp(route) ==
    CASE route = "nutrition"              -> "getDetailedNutrition"
      [] route = "instructions"           -> "getInstructions"
      [] route = "taste"                  -> "getTasteProfile"
      [] route = "flavor"                 -> "getFlavorProfile"
      [] route = "utensils"               -> "getUtensils"
      [] route = "processes"              -> "getProcesses"
      [] route = "ingredients-categories" -> "getIngredientsWithCategories"
      [] route = "precision-health"       -> "getDetailedNutrition"

\* x || null
OrNull(x) == IF Truthy(x) THEN x ELSE Null

\* the nutrition payload behind a getDetailedNutrition result of the model
detailPayload(d) ==
    IF d.v = 1
    THEN primaryPayload([fiber |-> 5, protein |-> 12, sugar |-> 2, satFat |-> 1,
                         sodium |-> 300, calories |-> 250, servings |-> 1])
    ELSE alternativePayload([fiber |-> 0, protein |-> 5, sugar |-> 6, satFat |-> 4,
                             sodium |-> 200, calories |-> 100, servings |-> 2])

\* the body a route answers for what the aggregator returned
routeResponse(route, id, data) ==
    CASE route = "nutrition" ->
            [status |-> 200, success |-> Truthy(data), recipeId |-> id,
             nutrition |-> OrNull(data),
             message |-> IF Truthy(data) THEN Undefined
                         ELSE Str("No nutrition data available for recipe " \o id)]
      [] route = "instructions" ->
            [status |-> 200, success |-> Truthy(data), recipeId |-> id,
             instructions |-> OrNull(data),
             message |-> IF Truthy(data) THEN Undefined
                         ELSE Str("No instructions available for recipe " \o id)]
      [] route = "taste" ->
            [status |-> 200, success |-> Truthy(data), recipeId |-> id,
             taste |-> OrNull(data)]
      [] route = "flavor" ->
            [status |-> 200, success |-> Truthy(data), recipeId |-> id,
             flavor |-> OrNull(data)]
      [] route = "utensils" -> [status |-> 200, success |-> TRUE, utensils |-> data]
      [] route = "processes" -> [status |-> 200, success |-> TRUE, processes |-> data]
      [] route = "ingredients-categories" ->
            [status |-> 200, success |-> TRUE, payload |-> data]
      [] route = "precision-health" ->
            IF ~Truthy(data)
            THEN [status |-> 200, success |-> FALSE,
                  message |-> Str("Nutrition data unavailable for scoring")]
            ELSE precisionHealth(detailPayload(data))

\* a detail request: the route, the id, the position of the handler and what
\* the awaited aggregator operation returned
RouteRequest(route, id, pc, returned) ==
    [route |-> route, id |-> id, pc |-> pc, returned |-> returned]

\* a detail handler up to its first await
RouteStart(route, id) ==
    /\ req.pc \in {"idle", "done"}
    /\ req' = RouteRequest(route, id, "await", Null)
    /\ resp' = Null
    /\ Start(1, routeOp(route), id)
    /\ UNCHANGED <<flavorData, engVars, hsVars, cardVars, libVars>>

\* precision-health between its two awaits: nutriData arrived and
\* searchRecipes('') is called
RouteSearch ==
    /\ req.pc = "await" /\ req.route = "precision-health"
    /\ calls[1].pc = "done"
    /\ req' = [req EXCEPT !.pc = "await2", !.returned = calls[1].result]
    /\ Start(1, "searchRecipes", [q |-> "", page |-> 1, limit |-> 50])
    /\ UNCHANGED <<resp, flavorData, engVars, hsVars, cardVars, libVars>>

\* a detail handler after its last await
RouteFinish ==
    /\ \/ req.pc = "await" /\ req.route # "precision-health"
       \/ req.pc = "await2"
    /\ calls[1].pc = "done"
    /\ LET returned == IF req.pc = "await2" THEN req.returned ELSE calls[1].result
       IN  /\ req' = [req EXCEPT !.pc = "done", !.returned = returned]
           /\ resp' = routeResponse(req.route, req.id, returned)
    /\ UNCHANGED <<flavorData, engVars, hsVars, aggVars, cardVars, libVars>>

(***************************************************************************)
(* POST /analyze-food (routes)                                             *)
(***************************************************************************)
\* recipe.cooking_method ? (lower.includes('fried') || lower.includes('fry')) : false
isFriedRecipe(recipe) ==
    IF recipe.cooking_method = Undefined \/ recipe.cooking_method.s = "" THEN FALSE
    ELSE \/ includes(toLowerCase(recipe.cooking_method.s), "fried")
         \/ includes(toLowerCase(recipe.cooking_method.s), "fry")

\* a || b for optional strings
OrElse(a, b) == IF a # Undefined /\ a.s # "" THEN a ELSE b

\* detectedLabel ? FoodDetector.mapLabel(detectedLabel) : foodName.toLowerCase().trim()
mappedFoodOf(body) ==
    IF body.detectedLabel # Undefined /\ body.detectedLabel.s # ""
    THEN mapLabel(body.detectedLabel.s)
    ELSE Str(trim(toLowerCase(body.foodName.s)))

BadRequest == [status |-> 400, error |-> "foodName is required"]

NotFound ==
    [status |-> 404, error |-> "Food not found",
     supportedFoods |-> getSupportedFoods]

AnalysisFailed == [status |-> 500, error |-> "Analysis failed"]

\* the 404 body: error, message naming the food, and the supported foods
notFoundResponse(foodName) ==
    [message |-> "\"" \o foodName \o "\" is not in our database. Try one of our supported foods."]
    @@ NotFound

\* if (!recipe)
recipeMissingNever(recipe) == FALSE

recipeMissing(recipe) == ~Truthy(recipe)

\* the part of the handler after the recipe arrived: the response, the
\* flavor dataset afterwards, and which steps ran (scored: calculateHealthScore
\* was called; lookedUp: getHealthierAlternatives was called)
analyzeResponse(fdata, body, mappedFood, recipe) ==
    LET nutrition == recipe.nutrition
        goal == OrElse(body.goal, Str("balanced_diet")).s
        healthScore == calculateHealthScore(nutrition, goal)
        isFried == isFriedRecipe(recipe)
        alt == getHealthierAlternatives(fdata, mappedFood, isFried, 3)
    IN  IF recipeMissing(recipe)
        THEN [resp |-> notFoundResponse(body.foodName.s), data |-> fdata,
              scored |-> FALSE, lookedUp |-> FALSE]
        ELSE IF ~Truthy(recipe)
        THEN \* recipe.nutrition of null throws
             [resp |-> AnalysisFailed, data |-> fdata,
              scored |-> FALSE, lookedUp |-> FALSE]
        ELSE IF alt.threw
        THEN [resp |-> AnalysisFailed, data |-> fdata,
              scored |-> TRUE, lookedUp |-> TRUE]
        ELSE [resp |->
                 [status |-> 200, success |-> TRUE, detectedFood |-> mappedFood,
                  originalLabel |-> OrElse(body.detectedLabel, body.foodName),
                  recipe |-> recipe, nutrition |-> nutrition,
                  healthScore |-> healthScore,
                  suitability |-> getSuitability(healthScore),
                  alternatives |-> alt.value,
                  flavorData |-> getSimilarFoods(alt.data, mappedFood)],
              data |-> alt.data, scored |-> TRUE, lookedUp |-> TRUE]

\* a request record: the body, the mapped food, the position of the handler
\* and, as history, whether getRecipe was called and which steps ran
Request(body, mappedFood, pc, called) ==
    [body |-> body, mappedFood |-> mappedFood, pc |-> pc, called |-> called,
     scored |-> FALSE, lookedUp |-> FALSE]

\* the handler up to its await: the 400 answer, a throw of getRecipe on a
\* mapped label that is not a string, or the getRecipe call in slot 1
AnalyzeStart(body) ==
    /\ req.pc \in {"idle", "done"}
    /\ Free(1)
    /\ IF ~Truthy(body.foodName) \/ body.foodName.s = ""
       THEN /\ req' = Request(body, Undefined, "done", FALSE)
            /\ resp' = BadRequest
            /\ UNCHANGED aggVars
       ELSE LET mappedFood == mappedFoodOf(body) IN
            IF mappedFood.t # "str"
            THEN /\ req' = Request(body, mappedFood, "done", TRUE)
                 /\ resp' = AnalysisFailed
                 /\ UNCHANGED aggVars
            ELSE /\ req' = Request(body, mappedFood, "recipe", TRUE)
                 /\ resp' = Null
                 /\ Start(1, "getRecipe", mappedFood.s)
    /\ UNCHANGED <<flavorData, engVars, hsVars, cardVars, libVars>>

\* the handler after getRecipe resolved
AnalyzeFinish ==
    /\ req.pc = "recipe"
    /\ calls[1].pc = "done"
    /\ LET out == analyzeResponse(flavorData, req.body, req.mappedFood.s, calls[1].result)
       IN  /\ resp' = out.resp
           /\ flavorData' = out.data
           /\ req' = [req EXCEPT !.pc = "done", !.scored = out.scored,
                                 !.lookedUp = out.lookedUp]
    /\ UNCHANGED <<engVars, hsVars, aggVars, cardVars, libVars>>

(***************************************************************************)
(* Recipe card of the front end (DetailedRecipeCard.fetchFullDetails)      *)
(***************************************************************************)
\* the fields of the details state filled from the nine fetches, in the
\* order of the Promise.all arrays
Details ==
    <<"nutrition", "instructions", "taste", "flavor", "utensils", "processes",
      "structuredIngredients", "healthIntel", "precisionHealth">>

DetailNames == {Details[i] : i \in DOMAIN Details}

\* useState({...}): every detail null, loading false
InitialDetails == [d \in DetailNames \cup {"loading"} |-> IF d = "loading" THEN FALSE ELSE Null]

\* the parsed body of a fetch that resolved with JSON
bodyOf(d) == [success |-> TRUE, value |-> Str(d)]

\* what setDetails stores for a detail from its parsed body
storedDetail(d, body) ==
    IF d \in {"healthIntel", "precisionHealth"}
    THEN (IF body.success THEN body ELSE Null)
    ELSE body.value

\* the catch block: setDetails(prev => ({ ...prev, loading: false }))
failedDetails(prev, fs) == [prev EXCEPT !["loading"] = FALSE]

\* setDetails({ ... , loading: false }) after both Promise.all resolved
loadedDetails ==
    [d \in DetailNames \cup {"loading"} |->
        IF d = "loading" THEN FALSE ELSE storedDetail(d, bodyOf(d))]

\* the effect runs: loading is set and the nine fetches are issued
CardStart ==
    /\ cardPc = "idle"
    /\ cardPc' = "fetching"
    /\ fetches' = [d \in DetailNames |-> "pending"]
    /\ details' = [details EXCEPT !["loading"] = TRUE]
    /\ UNCHANGED <<engVars, hsVars, aggVars, anaVars, libVars>>

\* one fetch settles: it resolves with a JSON body ("ok"), resolves with a
\* body that is not JSON ("unparsable"), or rejects; the first rejection
\* rejects the first Promise.all and the catch block runs
FetchSettle(d, outcome) ==
    /\ cardPc # "idle"
    /\ fetches[d] = "pending"
    /\ fetches' = [fetches EXCEPT ![d] = outcome]
    /\ IF cardPc = "fetching" /\ outcome = "rejected"
       THEN /\ cardPc' = "done"
            /\ details' = failedDetails(details, fetches')
       ELSE UNCHANGED <<cardPc, details>>
    /\ UNCHANGED <<engVars, hsVars, aggVars, anaVars, libVars>>

\* all nine fetches resolved: the nine json() promises are joined; one body
\* that does not parse rejects the second Promise.all and the catch block
\* runs, else the details are set
CardJoin ==
    /\ cardPc = "fetching"
    /\ \A d \in DetailNames : fetches[d] \in {"ok", "unparsable"}
    /\ cardPc' = "done"
    /\ details' = IF \E d \in DetailNames : fetches[d] = "unparsable"
                  THEN failedDetails(details, fetches)
                  ELSE loadedDetails
    /\ UNCHANGED <<fetches, engVars, hsVars, aggVars, anaVars, libVars>>

(***************************************************************************)
(* Direct calls of the label mapper                                        *)
(***************************************************************************)
\* FoodDetector.mapLabel(label)
MapLabel(label) ==
    /\ mapped.pc = "idle"
    /\ mapped' = [pc |-> "done", label |-> label, result |-> mapLabel(label)]
    /\ UNCHANGED <<engVars, hsVars, aggVars, anaVars, cardVars, altCall>>

(***************************************************************************)
(* Direct calls of the alternative finder                                  *)
(***************************************************************************)
\* FlavorDBService.getHealthierAlternatives(foodName, originalIsFried, limit):
\* the call keeps what the dataset held when it was made
Alternatives(foodName, originalIsFried, limit) ==
    LET r == getHealthierAlternatives(flavorData, foodName, originalIsFried, limit)
    IN  /\ altCall.pc = "idle"
        /\ altCall' = [pc |-> "done", foodName |-> foodName,
                       originalIsFried |-> originalIsFried, limit |-> limit,
                       threw |-> r.threw, value |-> r.value, before |-> flavorData]
        /\ flavorData' = r.data
        /\ UNCHANGED <<engVars, hsVars, aggVars, req, resp, cardVars, mapped>>

(***************************************************************************)
(* Initial states                                                          *)
(***************************************************************************)
\* one dataset entry, with plausible values
PizzaEntry ==
    [calories |-> 266, carbs |-> 33, protein |-> 11, fat |-> 10, fiber |-> 2,
     sugar |-> 4, sodium |-> 598, fried |-> FALSE, refined |-> TRUE]

\* dataset entries on every side of the thresholds of the engine
EngineEntries ==
    [calories : {90, 120, 200, 260, 310}, carbs : {25, 35, 45},
     protein : {9, 12, 15, 18, 21}, fat : {4, 10, 16, 21}, fiber : {1, 3, 5},
     sugar : {5, 12, 18, 22}, sodium : {300, 550, 650},
     fried : BOOLEAN, refined : BOOLEAN]

\* nutrition profiles on every side of the thresholds of calculateHealthScore,
\* negative values included
ScoreProfiles ==
    [calories : {-5, 150, 250, 400, 600}, carbs : {10, 20, 35, 50},
     protein : {3, 7, 10, 15, 25, 30}, fat : {3, 7, 15, 18, 25},
     fiber : {2, 4, 6}, sugar : {5, 12, 20}, sodium : {300, 600, 900}]

EngineFoods == {"pizza", " Pizza", "cheese pizza", "sushi"}
AnyGoal == GOALS \cup {"keto"}

InitEngine ==
    /\ engPc = "idle" /\ engArgs = Null /\ engResult = Null

InitScore ==
    /\ hsPc = "idle" /\ hsGoal = "none" /\ hsResult = Null

InitAgg ==
    /\ now = 0
    /\ cache = EmptyObject
    /\ calls = [slot \in Slots |-> IdleCall]
    /\ last = Summary(IdleCall)
    /\ ncalls = 0

\* the component before its effect ran
InitCard ==
    /\ cardPc = "idle"
    /\ fetches = [d \in DetailNames |-> "idle"]
    /\ details = InitialDetails

\* no request yet
IdleRequest == Request(Null, Undefined, "idle", FALSE)

\* no direct call made yet
NoCall == [pc |-> "idle"]

InitLib ==
    /\ mapped = NoCall
    /\ altCall = NoCall

InitAnalyze ==
    /\ flavorData = EmptyObject /\ req = IdleRequest /\ resp = Null

(***************************************************************************)
(* Specifications                                                          *)
(***************************************************************************)
\* the suitability engine over every dataset entry
SpecEngineInit ==
    /\ nutritionData \in {("pizza" :> e) : e \in EngineEntries}
    /\ hsNutrition = PizzaEntry
    /\ InitEngine /\ InitScore /\ InitAgg /\ InitCard /\ InitLib /\ InitAnalyze

SpecEngineNext == \E foodName \in EngineFoods, goal \in AnyGoal : Evaluate(foodName, goal)

SpecEngine == SpecEngineInit /\ [][SpecEngineNext]_vars

\* the goal-weighted score over every nutrition profile
SpecScoreInit ==
    /\ nutritionData = ("pizza" :> PizzaEntry)
    /\ hsNutrition \in ScoreProfiles
    /\ InitEngine /\ InitScore /\ InitAgg /\ InitCard /\ InitLib /\ InitAnalyze

SpecScoreNext == \E goal \in AnyGoal : Calculate(goal)

SpecScore == SpecScoreInit /\ [][SpecScoreNext]_vars

\* the aggregator steps leave the datasets, the scores, the request and the
\* recipe card alone
AggOnly == UNCHANGED <<nutritionData, engPc, engArgs, engResult, hsVars, anaVars, cardVars, libVars>>

\* the aggregator, one call at a time
AggCalls ==
    {[op |-> "getRecipe", arg |-> "Pizza"],
     [op |-> "searchRecipes", arg |-> [q |-> "Samosa", page |-> 1, limit |-> 50]]}
    \cup {[op |-> o, arg |-> "samosa_001"] : o \in DetailOps}

SpecAggInit ==
    /\ nutritionData = ("pizza" :> PizzaEntry)
    /\ hsNutrition = PizzaEntry
    /\ InitEngine /\ InitScore /\ InitAgg /\ InitCard /\ InitLib /\ InitAnalyze

SpecAggNext ==
    \/ \E c \in AggCalls : Start(1, c.op, c.arg) /\ AggOnly
    \/ \E o \in RemoteOutcomes : Respond(1, o) /\ AggOnly
    \/ \E o \in RemoteOutcomes : RespondNutrition(1, o) /\ AggOnly
    \/ Tick /\ AggOnly

SpecAgg == SpecAggInit /\ [][SpecAggNext]_vars

\* repeated getDetailedNutrition calls, for a sample id and for another id
NutritionIds == {"samosa_001", "42"}

SpecNutritionNext ==
    \/ \E id \in NutritionIds : Start(1, "getDetailedNutrition", id) /\ AggOnly
    \/ \E o \in RemoteOutcomes : Respond(1, o) /\ AggOnly
    \/ Tick /\ AggOnly

SpecNutrition == SpecAggInit /\ [][SpecNutritionNext]_vars

\* the aggregator with food names that read like other operations' keys
KeyCalls ==
    {[op |-> "getRecipe", arg |-> "nutrition_samosa_001"],
     [op |-> "getRecipe", arg |-> "search_samosa_1_50"],
     [op |-> "searchRecipes", arg |-> [q |-> "Samosa", page |-> 1, limit |-> 50]],
     [op |-> "getDetailedNutrition", arg |-> "samosa_001"]}

SpecKeysNext ==
    \/ \E c \in KeyCalls : Start(1, c.op, c.arg) /\ AggOnly
    \/ \E o \in RemoteOutcomes : Respond(1, o) /\ AggOnly
    \/ \E o \in RemoteOutcomes : RespondNutrition(1, o) /\ AggOnly
    \/ Tick /\ AggOnly

SpecKeys == SpecAggInit /\ [][SpecKeysNext]_vars

\* the same calls, from the state a successful
\* getDetailedNutrition("samosa_001") at time 0 leaves behind
SpecSharedKeyInit ==
    /\ nutritionData = ("pizza" :> PizzaEntry)
    /\ hsNutrition = PizzaEntry
    /\ InitEngine /\ InitScore /\ InitCard /\ InitLib /\ InitAnalyze
    /\ now = 0
    /\ cache = (cacheKeyOf("getDetailedNutrition", "samosa_001")
                  :> [data |-> DetailData("getDetailedNutrition", "samosa_001", 1),
                      timestamp |-> 0])
    /\ calls = [s \in Slots |-> IdleCall]
    /\ last = Summary(IdleCall)
    /\ ncalls = 0

SpecSharedKey == SpecSharedKeyInit /\ [][SpecKeysNext]_vars

\* concurrent calls: every slot runs one call, in any interleaving
RaceCalls ==
    {[op |-> "getRecipe", arg |-> "Pizza"],
     [op |-> "searchRecipes", arg |-> [q |-> "Samosa", page |-> 1, limit |-> 50]],
     [op |-> "getDetailedNutrition", arg |-> "42"]}

SpecRaceNext ==
    \/ \E slot \in Slots, c \in RaceCalls :
          calls[slot].pc = "idle" /\ Start(slot, c.op, c.arg) /\ AggOnly
    \/ \E slot \in Slots, o \in RemoteOutcomes : Respond(slot, o) /\ AggOnly
    \/ \E slot \in Slots, o \in RemoteOutcomes : RespondNutrition(slot, o) /\ AggOnly
    \/ Tick /\ AggOnly

SpecRace == SpecAggInit /\ [][SpecRaceNext]_vars

\* getRecipe with food names that are a key of the local dataset, contain one
\* or match none
LocalFoods == {"Pizza", " French Fries", "cheese pizza", "sushi"}

SpecLocalNext ==
    \/ \E n \in LocalFoods : Start(1, "getRecipe", n) /\ AggOnly
    \/ \E o \in RemoteOutcomes : Respond(1, o) /\ AggOnly
    \/ \E o \in RemoteOutcomes : RespondNutrition(1, o) /\ AggOnly
    \/ Tick /\ AggOnly

SpecLocal == SpecAggInit /\ [][SpecLocalNext]_vars

\* flavor candidates: healthy and not, fried and not, one without a method
FlavorCandidates ==
    {[name |-> "flatbread", cooking_method |-> Str("Baked"), calories |-> 200,
      similarity |-> 80, fried |-> FALSE],
     [name |-> "calzone", cooking_method |-> Str("deep fried"), calories |-> 350,
      similarity |-> 90, fried |-> TRUE],
     [name |-> "focaccia", cooking_method |-> Undefined, calories |-> 250,
      similarity |-> 70, fried |-> FALSE],
     [name |-> "bruschetta", cooking_method |-> Str("grilled"), calories |-> 200,
      similarity |-> 85, fried |-> FALSE]}

MaxCandidates == 2

\* the lists of distinct candidates, in every order
FlavorLists ==
    {l \in UNION {[1..n -> FlavorCandidates] : n \in 0..MaxCandidates} :
        \A i, j \in DOMAIN l : i # j => l[i] # l[j]}

FlavorDatasets ==
    {("pizza" :> [similar_foods |-> l])
       @@ ("french fries" :>
              [similar_foods |-> <<CHOOSE c \in FlavorCandidates : c.fried>>]) :
        l \in FlavorLists}

\* request bodies: no food name, names that are a dataset key, match none or
\* are inherited by every object, and classifier labels
AnalyzeBodies ==
    {[foodName |-> f, goal |-> Undefined, detectedLabel |-> Undefined] :
        f \in {Undefined, Str(" Pizza"), Str("French Fries"), Str("sushi"),
               Str("constructor")}}
    \cup {[foodName |-> Str("photo"), goal |-> Str("weight_loss"), detectedLabel |-> Str(l)] :
            l \in {"French_Loaf", "constructor"}}

SpecAnalyzeInit ==
    /\ nutritionData = ("pizza" :> PizzaEntry)
    /\ hsNutrition = PizzaEntry
    /\ InitEngine /\ InitScore /\ InitAgg /\ InitCard /\ InitLib
    /\ flavorData \in FlavorDatasets /\ req = IdleRequest /\ resp = Null

SpecAnalyzeNext ==
    \/ \E body \in AnalyzeBodies : AnalyzeStart(body)
    \/ \E o \in RemoteOutcomes : Respond(1, o) /\ AggOnly
    \/ \E o \in RemoteOutcomes : RespondNutrition(1, o) /\ AggOnly
    \/ AnalyzeFinish

SpecAnalyze == SpecAnalyzeInit /\ [][SpecAnalyzeNext]_vars

\* the handler over one dataset: requests without a food name, with an empty
\* one, with a known food, with a food no source knows, and with a label
\* that maps to no string
NotFoundBodies ==
    {[foodName |-> f, goal |-> Undefined, detectedLabel |-> Undefined] :
        f \in {Undefined, Str(""), Str(" Pizza"), Str("sushi")}}
    \cup {[foodName |-> Str("photo"), goal |-> Undefined, detectedLabel |-> Str("constructor")]}

SpecNotFoundInit ==
    /\ nutritionData = ("pizza" :> PizzaEntry)
    /\ hsNutrition = PizzaEntry
    /\ InitEngine /\ InitScore /\ InitAgg /\ InitCard /\ InitLib
    /\ flavorData = ("pizza" :> [similar_foods |->
                         <<CHOOSE c \in FlavorCandidates : c.name = "flatbread">>])
    /\ req = IdleRequest /\ resp = Null

SpecNotFoundNext ==
    \/ \E body \in NotFoundBodies : AnalyzeStart(body)
    \/ \E o \in RemoteOutcomes : Respond(1, o) /\ AggOnly
    \/ \E o \in RemoteOutcomes : RespondNutrition(1, o) /\ AggOnly
    \/ AnalyzeFinish

SpecNotFound == SpecNotFoundInit /\ [][SpecNotFoundNext]_vars

\* nutrition payloads of the remote API: under the primary keys as numbers, or
\* under the alternative keys as strings; servings absent, or a power of two;
\* all values such that the arithmetic of the handler is exact in doubles
PrecisionValues ==
    [fiber : {0, 4, 5}, protein : {0, 5, 12}, sugar : {0, 2, 6}, satFat : {0, 1, 4},
     sodium : {0, 200, 300}, calories : {0, 100, 250}, servings : {0, 1, 2, 4}]

PrecisionPayloads ==
    {primaryPayload(v) : v \in PrecisionValues}
    \cup {alternativePayload(v) : v \in PrecisionValues}

SpecPrecisionInit ==
    /\ nutritionData = ("pizza" :> PizzaEntry)
    /\ hsNutrition \in PrecisionPayloads
    /\ InitEngine /\ InitScore /\ InitAgg /\ InitCard /\ InitLib /\ InitAnalyze

SpecPrecisionNext == ScorePrecision

SpecPrecision == SpecPrecisionInit /\ [][SpecPrecisionNext]_vars

RouteIds == {"42", "samosa_001"}

SpecRoutesNext ==
    \/ \E route \in DetailRoutes, id \in RouteIds : RouteStart(route, id)
    \/ \E o \in RemoteOutcomes : Respond(1, o) /\ AggOnly
    \/ RouteSearch
    \/ RouteFinish

SpecRoutes == SpecAggInit /\ [][SpecRoutesNext]_vars

\* the recipe card: the nine fetches settle in any order, each in any way
FetchOutcomes == {"ok", "unparsable", "rejected"}

SpecCardInit ==
    /\ nutritionData = ("pizza" :> PizzaEntry)
    /\ hsNutrition = PizzaEntry
    /\ InitEngine /\ InitScore /\ InitAgg /\ InitCard /\ InitLib /\ InitAnalyze

SpecCardNext ==
    \/ CardStart
    \/ \E d \in DetailNames, outcome \in FetchOutcomes : FetchSettle(d, outcome)
    \/ CardJoin

SpecCard == SpecCardInit /\ [][SpecCardNext]_vars

\* classifier labels: single words, pairs of words joined by every kind of
\* separator run, with and without surrounding blanks, and longer labels
LabelWords == {"French", "Fries", "hamburger", "ice", "cream", "large", "xyz", "qq", "cake"}
LabelSeps == {"_", " ", "  ", "_ "}
LabelPads == {"", " "}
Labels ==
    LabelWords
    \cup {p \o a \o sep \o b \o p : p \in LabelPads, a \in LabelWords,
                                      b \in LabelWords, sep \in LabelSeps}
    \cup {"totally_unknown_xyz", "large french fries", "Large_French_Fries",
          "vanilla ice cream", "fried rice bowl", "constructor", ""}
    \cup {getSupportedFoods[i] : i \in DOMAIN getSupportedFoods}

SpecLabelInit ==
    /\ nutritionData = ("pizza" :> PizzaEntry)
    /\ hsNutrition = PizzaEntry
    /\ InitEngine /\ InitScore /\ InitAgg /\ InitCard /\ InitLib /\ InitAnalyze

SpecLabelNext == \E label \in Labels : MapLabel(label)

SpecLabel == SpecLabelInit /\ [][SpecLabelNext]_vars

\* candidates of the alternative finder: the ones above, one whose method
\* says fried while its flag does not, and an unhealthy one low in calories
AltCandidates ==
    FlavorCandidates
    \cup {[name |-> "tempura", cooking_method |-> Str("Deep Fried"), calories |-> 300,
           similarity |-> 75, fried |-> FALSE],
          [name |-> "stir fry", cooking_method |-> Str("Sauteed"), calories |-> 150,
           similarity |-> 60, fried |-> FALSE]}

MaxAlternatives == 3

AltLists ==
    {l \in UNION {[1..n -> AltCandidates] : n \in 0..MaxAlternatives} :
        \A i, j \in DOMAIN l : i # j => l[i] # l[j]}

\* food names: a key up to case and blanks, a name that contains a key, one
\* that matches no key, and one every object inherits
AltFoods == {"Pizza ", "cheese pizza", "sushi", "constructor"}

MaxLimit == 3
AltLimits == -1..MaxLimit

SpecFlavorInit ==
    /\ nutritionData = ("pizza" :> PizzaEntry)
    /\ hsNutrition = PizzaEntry
    /\ InitEngine /\ InitScore /\ InitAgg /\ InitCard /\ InitLib
    /\ flavorData \in {("pizza" :> [similar_foods |-> l]) : l \in AltLists}
    /\ req = IdleRequest /\ resp = Null

SpecFlavorNext ==
    \E foodName \in AltFoods, originalIsFried \in BOOLEAN, limit \in AltLimits :
        Alternatives(foodName, originalIsFried, limit)

SpecFlavor == SpecFlavorInit /\ [][SpecFlavorNext]_vars

\* raw values the API delivers for a quantity: absent, zero, positive or
\* negative, as a JSON number or as text
RawQuantities == {Undefined, Num(0), Num(300), Text(1000), Num(-50)}
RawServings == {Undefined, Num(0), Text(0), Num(2), Text(4), Num(-2)}

\* recipeByTitle and nutritioninfo payloads handed to processRecipeData
ProcessInputs ==
    {[rawRecipe |-> [Recipe_title |-> "Pizza", recipe_id |-> Str("42"),
                     servings |-> sv, Calories |-> c, Processes |-> Str("chop|| bake")],
      nutritionData |-> n] :
        sv \in RawServings, c \in RawQuantities,
        n \in {Null} \cup {[Calories |-> q, carbs |-> Text(120), protein |-> r,
                            fat |-> Undefined, fiber |-> Num(0), sugar |-> Num(22),
                            sodium |-> Num(900)] :
                               q \in RawQuantities, r \in RawQuantities}}

SpecProcessInit ==
    /\ nutritionData = ("pizza" :> PizzaEntry)
    /\ hsNutrition \in ProcessInputs
    /\ InitEngine /\ InitScore /\ InitAgg /\ InitCard /\ InitLib /\ InitAnalyze

SpecProcessNext == ProcessRecipe

SpecProcess == SpecProcessInit /\ [][SpecProcessNext]_vars

\* nutrition payloads with every form of serving count: absent, zero or
\* positive, as a number or as text
ServingForms == {Undefined, Num(0), Text(0), Num(2), Text(4)}

ServingPayloads ==
    {("Fiber, total dietary (g)" :> Num(v.fiber)) @@ ("Protein (g)" :> Num(v.protein))
       @@ ("Sugars, total (g)" :> Num(v.sugar)) @@ ("Energy (kcal)" :> Num(v.calories))
       @@ (IF sv = Undefined THEN EmptyObject ELSE ("servings" :> sv)) :
        v \in [fiber : {0, 4, 8}, protein : {0, 12}, sugar : {0, 6}, calories : {0, 200}],
        sv \in ServingForms}

SpecServingsInit ==
    /\ nutritionData = ("pizza" :> PizzaEntry)
    /\ hsNutrition \in ServingPayloads
    /\ InitEngine /\ InitScore /\ InitAgg /\ InitCard /\ InitLib /\ InitAnalyze

SpecServingsNext == ScorePrecision

SpecServings == SpecServingsInit /\ [][SpecServingsNext]_vars

\* nutrition payloads whose scores fall between the tenths
RoundedPayloads ==
    {primaryPayload(v) :
        v \in [fiber : {0, 2, 4}, protein : {0, 4}, sugar : {0, 1}, satFat : {0},
               sodium : {0, 8, 10, 192}, calories : {0, 1, 4}, servings : {1, 2}]}

SpecRoundedInit ==
    /\ nutritionData = ("pizza" :> PizzaEntry)
    /\ hsNutrition \in RoundedPayloads
    /\ InitEngine /\ InitScore /\ InitAgg /\ InitCard /\ InitLib /\ InitAnalyze

SpecRounded == SpecRoundedInit /\ [][SpecPrecisionNext]_vars

(***************************************************************************)
(* Properties                                                              *)
(***************************************************************************)
cur == calls[1]

\* C1: for a food found in the dataset, evaluateSuitability answers suitable
\* exactly when the goal-adjusted score it returns is at least 50 and it
\* returns at most one reason; with two or more reasons it is never suitable.
C1_SuitableIffScoreAndReasons ==
    (engPc = "done" /\ engResult.found) =>
        /\ engResult.suitable <=> (engResult.score >= 50 /\ Len(engResult.reasons) <= 1)
        /\ Len(engResult.reasons) >= 2 => ~engResult.suitable

C1_Witness ==
    /\ engPc = "done" /\ engResult.found
    /\ engResult.score >= 50 /\ Len(engResult.reasons) = 2 /\ ~engResult.suitable

\* C2: calculateHealthScore returns a value in [0,100] for every nutrition
\* profile and every goal, an unrecognised goal included.
C2_ScoreInRange ==
    hsPc = "done" => (hsResult.score >= 0 /\ hsResult.score <= 100)

C2_Witness ==
    /\ hsPc = "done" /\ hsGoal \notin GOALS
    /\ RawHealthScore(hsNutrition, hsGoal) > 100 /\ hsResult.score = 100

\* the TTL of each operation as the specification states it, in hours
TtlHours(op) ==
    CASE op \in {"getRecipe", "searchRecipes"} -> 1
      [] op = "getDetailedNutrition" -> 2
      [] OTHER -> 4

\* C3: a call returns the cached data without a remote request exactly when
\* the cache holds an entry for its key whose age is below the operation's TTL
\* (1h recipe and search, 2h nutrition, 4h other details) and, for search,
\* whose data is non-empty; otherwise it issues a remote request.
C3_StartStep ==
    (ncalls' = ncalls + 1) =>
        LET c == calls'[1]
            live == /\ c.key \in DOMAIN cache
                    /\ now - cache[c.key].timestamp < TtlHours(c.op)
                    /\ c.op = "searchRecipes" => HasItems(cache[c.key].data)
        IN  /\ live <=> (c.pc = "done" /\ ~c.fetched /\ c.result = cache[c.key].data)
            /\ ~live => (c.pc = "fetch" /\ c.fetched)

C3_ServedIffLive == [][C3_StartStep]_vars

C3_Witness ==
    /\ cur.pc = "fetch" /\ cur.op = "getProcesses"
    /\ cur.key \in DOMAIN cache
    /\ now = cache[cur.key].timestamp + 4

\* C4 as stated: two consecutive getDetailedNutrition(id) calls within the TTL
\* window return identical content and the second issues no remote request,
\* whatever the remote outcome of the first call was.
C4_Original ==
    (/\ cur.pc = "done" /\ cur.op = "getDetailedNutrition"
     /\ last.pc = "done" /\ last.op = "getDetailedNutrition" /\ last.arg = cur.arg
     /\ now < 2)
    => (cur.result = last.result /\ ~cur.fetched)

\* C4 (amended): when the first call served or stored a cache entry and the
\* second call is made while that entry is younger than 2h, the second call
\* returns the same content and issues no remote request.
C4_SecondCallServedFromCache ==
    (/\ cur.pc # "idle" /\ cur.op = "getDetailedNutrition"
     /\ last.pc = "done" /\ last.op = "getDetailedNutrition" /\ last.arg = cur.arg
     /\ last.remote \in {"none", "data"}
     /\ last.entry # Null /\ now < last.entry.timestamp + 2)
    => (cur.pc = "done" /\ ~cur.fetched /\ cur.result = last.result)

C4_Witness ==
    /\ cur.pc = "done" /\ cur.op = "getDetailedNutrition" /\ ~cur.fetched
    /\ last.pc = "done" /\ last.op = "getDetailedNutrition" /\ last.arg = cur.arg
    /\ last.remote = "data" /\ now = last.entry.timestamp + 1
    /\ cur.result = last.result

\* C5: searchRecipes never serves a cache entry that holds no results: a
\* searchRecipes call that issues no remote request returns a non-empty list
\* that was cached for its key.
C5_SearchHitOnlyNonEmpty ==
    (cur.op = "searchRecipes" /\ cur.pc # "idle" /\ ~cur.fetched) =>
        /\ cur.pc = "done" /\ cur.entry # Null
        /\ cur.result.t = "list" /\ Len(cur.result.items) > 0

C5_Witness ==
    /\ cur.op = "searchRecipes" /\ cur.pc = "fetch" /\ cur.fetched
    /\ cur.key \in DOMAIN cache
    /\ cache[cur.key].timestamp = now
    /\ ~HasItems(cache[cur.key].data)

\* the local-dataset keys related to a name by containment in either direction
ContainmentKeys(key) ==
    {k \in DOMAIN RecipeData : includes(k, key) \/ includes(key, k)}

\* C6 as stated: after a non-2xx answer or a network error getRecipe returns the
\* local recipe found by exact key, else the one found by substring containment
\* in either direction, and null only when neither lookup matches.
C6_Original ==
    (cur.op = "getRecipe" /\ cur.pc = "done" /\ cur.remote \in {"status", "error"}) =>
        LET key == trim(toLowerCase(cur.arg))
        IN  IF key \in DOMAIN RecipeData
            THEN cur.result # Null /\ cur.result.Recipe_title = RecipeData[key].name
            ELSE IF ContainmentKeys(key) # {}
            THEN /\ cur.result # Null
                 /\ \E k \in ContainmentKeys(key) :
                        cur.result.Recipe_title = RecipeData[k].name
            ELSE cur.result = Null

\* C7 as stated: every aggregator call completes and returns the data or
\* exactly null (searchRecipes: a list), never undefined.
C7_Original ==
    cur.pc = "done" =>
        /\ cur.result # Undefined
        /\ cur.op = "searchRecipes" => cur.result.t = "list"

\* the operation whose remote answer a cached value is
WriterOf(d) ==
    CASE d.t = "recipe" -> "getRecipe"
      [] d.t = "list"   -> "searchRecipes"
      [] d.t = "detail" -> d.op
      [] OTHER          -> "none"

\* C8 as stated: an entry written by one operation is never returned as a hit
\* by a different operation, for every input string.
C8_Original ==
    (cur.pc = "done" /\ cur.hit) => WriterOf(cur.result) = cur.op

\* the entries the completed calls stored under a key
StoredBy(key) ==
    {calls[s].entry : s \in {t \in Slots : /\ calls[t].pc = "done" /\ calls[t].key = key
                                           /\ ~calls[t].hit /\ calls[t].entry # Null}}

AllReturned == \A s \in Slots : calls[s].pc \in {"idle", "done"}

\* C9: once all concurrent calls have completed, the cache entry of a key that
\* at least one call fetched successfully is present and is the whole
\* {data, timestamp} pair one of those calls stored, never a mix of two.
C9_EntryIsOneCallsPair ==
    AllReturned =>
        \A s \in Slots :
            (calls[s].pc = "done" /\ StoredBy(calls[s].key) # {}) =>
                /\ calls[s].key \in DOMAIN cache
                /\ cache[calls[s].key] \in StoredBy(calls[s].key)

C9_Witness ==
    /\ AllReturned
    /\ calls[1].pc = "done" /\ calls[2].pc = "done"
    /\ calls[1].op = calls[2].op /\ calls[1].key = calls[2].key
    /\ calls[1].fetched /\ calls[2].fetched
    /\ calls[1].entry # Null /\ calls[2].entry # Null
    /\ calls[1].entry.data # calls[2].entry.data
    /\ calls[1].entry.timestamp # calls[2].entry.timestamp

\* C10: in POST /analyze-food, once the recipe has been retrieved, a failure
\* of the alternatives lookup or of the flavor-similarity lookup never aborts
\* the request: the response is still the success envelope, with alternatives
\* empty or flavorData null.
C10_Original ==
    (req.pc = "done" /\ req.mappedFood # Undefined
        /\ req.mappedFood.t = "str" /\ Truthy(calls[1].result)) =>
        (resp.status = 200 /\ resp.success)

\* C11: a POST /analyze-food request that carries a foodName is answered 404,
\* with a message and the supported-food list, exactly when getRecipe returned
\* null for the mapped food, and then neither the scoring nor the alternatives
\* lookup ran; a request without foodName is answered 400 before any
\* aggregator call.
C11_NotFoundIffNoRecipe ==
    req.pc = "done" =>
        IF Truthy(req.body.foodName) /\ req.body.foodName.s # ""
        THEN /\ resp.status = 404 <=>
                    (req.mappedFood.t = "str" /\ calls[1].result = Null)
             /\ resp.status = 404 =>
                    /\ "message" \in DOMAIN resp
                    /\ resp.supportedFoods = getSupportedFoods
                    /\ ~req.scored /\ ~req.lookedUp
        ELSE resp.status = 400 /\ ~req.called

C11_Witness ==
    /\ req.pc = "done" /\ req.body.foodName = Str("sushi")
    /\ calls[1].remote = "status" /\ calls[1].result = Null
    /\ resp.status = 404

\* the per-serving inputs of the score, times servings
precisionInput == extractNutrients(hsNutrition)

\* C20: the precision-health score is (fiber*4 + protein*3) - (sugar*3 +
\* satFat*4 + sodium/200 + calories/100) over the per-serving values, and it is
\* classified "Very Healthy" above 15, "Moderate" from 5 to 15, "Less Healthy"
\* from 0 to below 5 and "Unhealthy" below 0; for fiber=5, protein=12, sugar=2,
\* satFat=1, sodium=300, calories=250, servings=1 the score is 42 and the
\* category "Very Healthy".
C20_ScoreAndCategory ==
    hsPc = "done" =>
        LET num == hsResult.scoreNum
            den == hsResult.scoreDen
        IN  /\ den > 0
            /\ num * 200 * precisionInput.servings =
                   den * (200 * (precisionInput.fiber * 4 + precisionInput.protein * 3)
                          - 200 * (precisionInput.sugar * 3 + precisionInput.satFat * 4)
                          - precisionInput.sodium - 2 * precisionInput.calories)
            /\ hsResult.category =
                   (CASE num > 15 * den -> "Very Healthy"
                      [] num >= 5 * den /\ num <= 15 * den -> "Moderate"
                      [] num >= 0 /\ num < 5 * den -> "Less Healthy"
                      [] num < 0 -> "Unhealthy")
            /\ (/\ precisionInput.fiber = 5 /\ precisionInput.protein = 12 /\ precisionInput.sugar = 2
                /\ precisionInput.satFat = 1 /\ precisionInput.sodium = 300 /\ precisionInput.calories = 250
                /\ precisionInput.servings = 1)
               => (hsResult.healthScore = 420 /\ hsResult.category = "Very Healthy")

C20_Witness ==
    /\ hsPc = "done"
    /\ hsResult.scoreNum = 15 * hsResult.scoreDen
    /\ hsResult.category = "Moderate"
    /\ precisionInput.servings = 2

\* C12 as stated: every detail handler answers success = false when the
\* aggregator returned no data for the resource, and success = true only when
\* it returned data.
C12_Original ==
    (req.pc = "done" /\ resp.status = 200) =>
        (resp.success <=> Truthy(req.returned))

\* C13 as stated: in the detail fan-out the failure of one fetch, by rejection
\* or by an unparsable body, does not prevent the results of the other fetches
\* from being stored: each failed detail degrades to null and the others are
\* kept, for every completion order.
C13_Original ==
    (cardPc = "done" /\ \A d \in DetailNames : fetches[d] # "pending") =>
        \A d \in DetailNames :
            details[d] = IF fetches[d] = "ok" THEN storedDetail(d, bodyOf(d)) ELSE Null

\* lower-cased, trimmed, every run of underscores and blanks made one blank
RECURSIVE singleSpaced(_)
singleSpaced(s) ==
    IF s = "" THEN ""
    ELSE IF IsSeparator(CharAt(s, 1))
    THEN (IF Len(s) >= 2 /\ IsSeparator(CharAt(s, 2)) THEN "" ELSE " ")
         \o singleSpaced(Rest(s))
    ELSE CharAt(s, 1) \o singleSpaced(Rest(s))

cleaned(label) == singleSpaced(trim(toLowerCase(label)))

\* the cleaned label written with underscores
underscored(label) == collapseSeparators(trim(toLowerCase(label)))

\* the label is a table key (or an inherited property) in one of its forms
exactMatch(label) ==
    \/ Truthy(LabelLookup(underscored(label)))
    \/ Truthy(LabelLookup(cleaned(label)))

\* key and label are substrings of one another, whichever separator either
\* is written with
related(key, label) ==
    \/ includes(underscored(label), key) \/ includes(key, underscored(label))
    \/ includes(cleaned(label), key) \/ includes(key, cleaned(label))
    \/ includes(underscored(label), collapseSeparators(key))
    \/ includes(collapseSeparators(key), underscored(label))

RECURSIVE firstRelated(_, _)
firstRelated(i, label) ==
    IF i > Len(LabelKeys) THEN Undefined
    ELSE IF \/ includes(underscored(label), collapseSeparators(LabelKeys[i]))
            \/ includes(collapseSeparators(LabelKeys[i]), underscored(label))
    THEN Str(LabelValues[i])
    ELSE firstRelated(i + 1, label)

\* C15 as stated: a label with no exact match in its underscore form or its
\* space form is mapped to the value of the first table key, in table order,
\* that is a substring of the normalized label or has it as a substring, for
\* keys written with spaces as for keys written with underscores; the
\* passthrough is returned only when no key satisfies the relation.
C15_Original ==
    (mapped.pc = "done" /\ ~exactMatch(mapped.label)) =>
        mapped.result = IF firstRelated(1, mapped.label) # Undefined
                        THEN firstRelated(1, mapped.label)
                        ELSE Str(cleaned(mapped.label))

\* the candidates the call found in the dataset, <<>> when it found none
foundCandidates ==
    LET match == matchedKey(altCall.before, altCall.foodName)
    IN  IF match = Undefined \/ Lookup(altCall.before, match.s) = ProtoValue THEN <<>>
        ELSE Lookup(altCall.before, match.s).similar_foods

\* a cooking method that names frying
indicatesFrying(method) ==
    method # Undefined /\ includes(toLowerCase(method.s), "fried")

\* C16 as stated: whatever the dataset holds, getHealthierAlternatives(food,
\* true, limit) returns no alternative whose cooking method indicates frying.
C16_Original ==
    (altCall.pc = "done" /\ altCall.originalIsFried /\ ~altCall.threw) =>
        \A i \in DOMAIN altCall.value : ~indicatesFrying(altCall.value[i].cooking_method)

\* C17 as stated: for every food, either value of originalIsFried and every
\* integer limit, the returned list has at most limit elements.
C17_Original ==
    (altCall.pc = "done" /\ ~altCall.threw) => Len(altCall.value) <= altCall.limit

\* C17: for every food, either value of originalIsFried and every integer
\* limit that is not negative, the returned list has at most limit elements.
C17_LengthAtMostLimit ==
    (altCall.pc = "done" /\ ~altCall.threw /\ altCall.limit >= 0) =>
        Len(altCall.value) <= altCall.limit

C17_Witness ==
    /\ altCall.pc = "done" /\ ~altCall.threw /\ ~altCall.originalIsFried
    /\ altCall.limit = 2 /\ Len(foundCandidates) = 3 /\ Len(altCall.value) = 2

\* a goes strictly before b in the order of the sort: healthy method first,
\* then fewer calories, then higher similarity
strictlyBefore(a, b) ==
    \/ healthyRank(a) > healthyRank(b)
    \/ healthyRank(a) = healthyRank(b) /\ a.calories < b.calories
    \/ healthyRank(a) = healthyRank(b) /\ a.calories = b.calories
         /\ a.similarity > b.similarity

\* the candidates the sort is given
remainingCandidates ==
    IF altCall.originalIsFried THEN SelectSeq(foundCandidates, notFried)
    ELSE foundCandidates

\* C18: the returned list has every healthy-method candidate before every
\* other one, calories ascending among candidates of the same healthiness and
\* similarity descending among those of equal calories, and it is exactly the
\* first limit candidates of that order.
C18_OrderedPrefix ==
    (altCall.pc = "done" /\ ~altCall.threw /\ altCall.limit >= 0) =>
        LET value == altCall.value
            names == {value[i].name : i \in DOMAIN value}
        IN  /\ \A i, j \in DOMAIN value : i < j => ~strictlyBefore(value[j], value[i])
            /\ Len(value) = Min(altCall.limit, Len(remainingCandidates))
            /\ \A i \in DOMAIN value : \E k \in DOMAIN remainingCandidates :
                    value[i] = withSource(remainingCandidates[k])
            /\ \A k \in DOMAIN remainingCandidates :
                    remainingCandidates[k].name \notin names =>
                        \A i \in DOMAIN value : ~strictlyBefore(remainingCandidates[k], value[i])

C18_Witness ==
    /\ altCall.pc = "done" /\ ~altCall.threw /\ altCall.limit = 2
    /\ Len(foundCandidates) = 3
    /\ foundCandidates[1].name = "stir fry" /\ foundCandidates[2].name = "flatbread"
    /\ foundCandidates[3].name = "bruschetta"
    /\ Len(altCall.value) = 2
    /\ altCall.value[1].name = "bruschetta" /\ altCall.value[2].name = "flatbread"

\* C19 as stated: getHealthierAlternatives never raises an error: it returns
\* the empty list when no dataset key matches the food name exactly or as a
\* substring, and a list for every dataset entry, candidates that lack a
\* cooking method included.
C19_Original ==
    altCall.pc = "done" =>
        /\ ~altCall.threw
        /\ getSimilarFoods(altCall.before, altCall.foodName) = Null => altCall.value = <<>>

NutrientFields == {"calories", "carbs", "protein", "fat", "fiber", "sugar", "sodium"}

\* C21 as stated: every nutrition profile the aggregator produces has
\* non-negative calories, carbs, protein, fat, fiber, sugar and sodium, for
\* every raw payload value and every servings value the API can deliver.
C21_Original ==
    hsPc = "done" => \A f \in NutrientFields : hsResult.nutrition[f] >= 0

\* the serving count of a payload when it is a positive number, else 1
validServings(nutriData) ==
    IF "servings" \in DOMAIN nutriData /\ nutriData["servings"].n > 0
    THEN nutriData["servings"].n ELSE 1

\* C22 as stated: where per-serving values are computed, the divisor is the
\* serving count when it is a valid positive number and 1 when it is missing
\* or invalid (absent, non-numeric, or zero as a number or as text), so no
\* division is by zero.
C22_Original ==
    hsPc = "done" =>
        /\ precisionInput.servings = validServings(hsNutrition)
        /\ hsResult.scoreDen # 0

\* the weight the engine gives a reason under a goal
weightOf(goal, reason) ==
    CASE reason = "Deep-fried preparation is unhealthy" -> 30
      [] reason = "Contains refined ingredients" -> 10
      [] reason = "High calorie count" -> 20
      [] reason = "High fat content" -> 15
      [] reason = "High carbohydrate content" -> 10
      [] reason = "High sugar content" -> IF goal = "weight_loss" THEN 10 ELSE 20
      [] reason = "Low protein content" -> 25
      [] reason = "Moderate protein" -> 10
      [] reason = "Very low-calorie" -> 15
      [] reason = "High carbohydrate content - spikes blood sugar" -> 25
      [] reason = "Refined ingredients cause rapid blood sugar spikes" -> 15
      [] reason = "Low fiber" -> 10
      [] reason = "Fried foods should be limited in a balanced diet" -> 15
      [] reason = "Excessive fat" -> 10
      [] reason = "High sugar" -> 10
      [] reason = "High sodium" -> 5

RECURSIVE totalWeight(_, _)
totalWeight(goal, reasons) ==
    IF reasons = <<>> THEN 0
    ELSE weightOf(goal, Head(reasons)) + totalWeight(goal, Tail(reasons))

\* C23: for a found food and any goal, the score of evaluateSuitability is
\* max(0, base - totalPenalty), where base is computeHealthScore(food), the
\* same for every goal, and totalPenalty is the sum of the weights of exactly
\* the checks that appended a reason; the score lies in [0,100].
C23_ScoreIsBaseMinusPenalty ==
    (engPc = "done" /\ engResult.found) =>
        LET base == computeHealthScore(nutritionData, engArgs.foodName)
        IN  /\ engResult.score =
                   Max(0, base - totalWeight(engArgs.goal, engResult.reasons))
            /\ engResult.score >= 0 /\ engResult.score <= 100

C23_Witness ==
    /\ engPc = "done" /\ engResult.found /\ engArgs.goal = "diabetes_friendly"
    /\ Len(engResult.reasons) = 3
    /\ engResult.score > 0
    /\ engResult.score < computeHealthScore(nutritionData, engArgs.foodName)

\* C27 as stated: whenever evaluateSuitability answers suitable = false for a
\* food found in the dataset, the reasons list is not empty, so the
\* explanation names at least one issue.
C27_Original ==
    (engPc = "done" /\ engResult.found /\ ~engResult.suitable) =>
        /\ engResult.reasons # <<>>
        /\ engResult.explanation.names # <<>>

\* the score of a balanced diet, written out
balancedDietScore(n) ==
    LET raw == 50
               + (IF n.protein >= 10 /\ n.protein <= 25 THEN 15 ELSE 0)
               + (IF n.carbs >= 20 /\ n.carbs <= 40 THEN 15 ELSE 0)
               + (IF n.fat >= 5 /\ n.fat <= 15 THEN 15 ELSE 0)
               + (IF n.fiber > 5 THEN 10 ELSE IF n.fiber > 3 THEN 5 ELSE 0)
               - (IF n.sugar > 15 THEN 15 ELSE IF n.sugar > 10 THEN 10 ELSE 0)
               - (IF n.sodium > 800 THEN 10 ELSE IF n.sodium > 500 THEN 5 ELSE 0)
    IN  IF raw < 0 THEN 0 ELSE IF raw > 100 THEN 100 ELSE raw

\* C29: calculateHealthScore treats every goal other than weight_loss and
\* muscle_gain as balanced_diet: for every nutrition profile the score for
\* diabetes_friendly, and for any unrecognised goal, is the balanced_diet score.
C29_OtherGoalsScoreAsBalanced ==
    (hsPc = "done" /\ hsGoal \notin {"weight_loss", "muscle_gain"}) =>
        hsResult.score = balancedDietScore(hsNutrition)

C29_Witness ==
    /\ hsPc = "done" /\ hsGoal = "diabetes_friendly"
    /\ hsNutrition.carbs = 50 /\ hsNutrition.sugar = 20
    /\ hsResult.score = balancedDietScore(hsNutrition)
    /\ hsResult.score # calculateHealthScore(hsNutrition, "weight_loss")

SupportedFoods == {getSupportedFoods[i] : i \in DOMAIN getSupportedFoods}

\* C24 as stated: mapLabel is the identity on each of the 20 supported food
\* names and idempotent on its own outputs, mapLabel(mapLabel(x)) =
\* mapLabel(x) for every label x.
C24_Original ==
    (mapped.pc = "done" /\ mapped.result.t = "str") =>
        /\ mapped.label \in SupportedFoods => mapped.result = Str(mapped.label)
        /\ mapLabel(mapped.result.s) = mapped.result

\* the similar foods every name is given by the dataset d
similarFoodsIn(d) == [food \in AltFoods |-> getSimilarFoods(d, food)]

\* C25 as stated: getHealthierAlternatives leaves the flavor-similarity
\* dataset unchanged: after a call getSimilarFoods returns for each food the
\* same similar_foods list, in the same order, as before it.
C25_Original ==
    altCall.pc = "done" => similarFoodsIn(flavorData) = similarFoodsIn(altCall.before)

\* data built from a successful remote response
fromRemote(data) ==
    /\ data \notin {Null, Undefined}
    /\ CASE data.t = "recipe" -> data.source = "RecipeDB API"
         [] data.t = "list" -> /\ data.items # <<>>
                               /\ \A i \in DOMAIN data.items :
                                     /\ "source" \in DOMAIN data.items[i]
                                     /\ data.items[i].source = "RecipeDB API"
         [] data.t = "detail" -> TRUE
         [] OTHER -> FALSE

DetailGetters ==
    {"getDetailedNutrition", "getInstructions", "getTasteProfile", "getFlavorProfile",
     "getUtensils", "getProcesses"}

\* C28 as stated: for each detail getter and each recipe id, a non-2xx HTTP
\* response and a thrown network error produce the same return value, the
\* same fallback lookup in the sample data.
C28_Original ==
    (/\ cur.pc = "done" /\ last.pc = "done"
     /\ cur.op \in DetailGetters /\ last.op = cur.op /\ last.arg = cur.arg
     /\ cur.fetched /\ last.fetched
     /\ cur.remote = "error" /\ last.remote = "status")
    => cur.result = last.result

\* C30 as stated: in the precision-health response the category agrees with
\* the thresholds applied to the returned healthScore, the value rounded to
\* one decimal: no response pairs a healthScore of 15.0 or less with "Very
\* Healthy", or a healthScore of 0 or more with "Unhealthy".
C30_Original ==
    hsPc = "done" =>
        /\ ~(hsResult.healthScore <= 150 /\ hsResult.category = "Very Healthy")
        /\ ~(hsResult.healthScore >= 0 /\ hsResult.category = "Unhealthy")

====
